---- MODULE Spec2Model ----
(***************************************************************************)
(* Matchmaking pipeline of Romish-backend: the queue pool and its join and  *)
(* leave requests, the ready/accept session (ReadySession aggregate and     *)
(* ready.socket service), the deadline timer of the socket layer, the TTL   *)
(* removal of ready sessions, the Match document composed when a ready      *)
(* session completes and the captains' draft on it.                         *)
(*                                                                          *)
(* Documents live in the stores `queues`, `sessions`, `matches` and in the  *)
(* two per-user flags; request handlers are split at their awaits where a   *)
(* claim is about the interleaving of requests (the accept handler, the     *)
(* deadline timer, the join handler) and are one step otherwise.            *)
(***************************************************************************)
EXTENDS Integers, Sequences, FiniteSets, TLC

\* ----------------------------------------------------------------- bounds
\* The pool size is 10 in the code (queue.model.js:38, ready.socket
\* startReadyPhase `playerIds.length !== 10`); the model scales it.
RequiredPlayers == 2
\* Users beyond one full roster (late joiners, non participants).
ExtraUsers == 1
\* Clock granularity and horizon, in seconds.
TickSeconds == 20
MaxTime == 40
\* Cap on the join requests served per user.
MaxJoinsPerUser == 1
\* Cap on accept requests in flight.
MaxInFlight == 2
\* selectedMap of a match whose veto has not ended (null)
NoMap == ""
\* result.winner of a match without a result (null)
NoWinner == ""
\* Maps of the pool of a match (12 in the code) and undrafted players a pick
\* is tried on, where picks and bans are logged.
MapPool == 4
MaxPickChoices == 1
\* The clock of a match in its accept phase runs to MaxMatchTime seconds.
MaxMatchTime == 80
\* Ratings below MaxLowRating and the default rating are the ratings a user
\* starts from, and MaxResults results are applied to a user.
MaxLowRating == 30
MaxResults == 3
\* Outcomes of the random captain draw that are explored.
MaxCaptainDraws == 2
\* Join requests in flight at once and join requests started in all, where
\* joinQueue is split at its awaits.
MaxJoinsInFlight == 2
MaxJoinRequests == 3
MaxPicksLeft == 2

\* ------------------------------------------------------ program constants
TIMEOUT_SECONDS == 20
AcceptPhaseTimeoutMs == 20000
\* requiredPlayers of the Queue schema, unscaled
SchemaRequiredPlayers == 10
\* players of a match in the draft (2 captains and the 8 picks of the pick order)
DraftPlayers == 10
\* default of User.stats.rating
StartRating == 1000
\* rating gained by a win and lost by a loss
RatingStep == 25
\* default of Match.availableMaps
AvailableMaps == <<"Dust II", "Mirage", "Inferno", "Nuke", "Overpass", "Vertigo", "Ancient",
                   "Cache", "Cobblestone", "Anubis", "Train", "Aztec">>
MatchAcceptTimeoutMs == 60000

NumUsers == RequiredPlayers + ExtraUsers
Users == 1..NumUsers
\* every pool and every session is started by a served join or by one call per pool
DocIds == 1..(MaxJoinsPerUser * NumUsers)
NoDoc == [none |-> TRUE]
NullDate == -1

VARIABLES
  now,         \* wall clock (Date.now()), seconds
  queues,      \* Queue documents, in createdAt order; _id = index
  inQueue,     \* User.inQueue
  currentMatch,\* User.currentMatch (0 = null, otherwise index into matches)
  sessions,    \* ReadySession documents; matchId PEND-<k> = index k; a document
               \* removed by the TTL index stays in the list with ttlDeleted set
  timers,      \* per session: the setTimeout of initializeReadyTimeout; where a
               \* match's accept phase is followed, per match: the setTimeout of
               \* processAcceptTimeout
  matches,     \* Match documents; _id = index
  acc,         \* per user: the accept request in flight (acceptReady / match:ready:accept)
  joins,       \* per user: join requests served so far
  replies,     \* the last two accept requests served one at a time, with their replies
  qlog,        \* the last response of POST /queue/join or /queue/leave; seq flips
               \* with every response
  jq,          \* requests in flight, one slot each: joinQueue split at its awaits,
               \* and the accept of a match between its load and its save
  mlog,        \* the last accept, pick, ban or complete request served on a match
               \* with its outcome, or the last updateStats call
  prov,        \* per match: the provisionServer promise of the request that ended the veto
  stats        \* User.stats

vars == <<now, queues, inQueue, currentMatch, sessions, timers, matches, acc, joins, replies,
          qlog, jq, mlog, prov, stats>>

\* ---------------------------------------------------------------- helpers
Min(S) == CHOOSE x \in S : \A y \in S : x <= y
Max2(a, b) == IF a >= b THEN a ELSE b

SeqToSet(s) == {s[i] : i \in 1..Len(s)}
SteamIds(players) == [i \in 1..Len(players) |-> players[i].steamId]
UserIds(players) == [i \in 1..Len(players) |-> players[i].userId]

\* -------------------------------------------------------------- the queue
\* Queue.create({ players: [], status: 'waiting' }); requiredPlayers is the schema default
NewQueue == [players |-> <<>>, status |-> "waiting", requiredPlayers |-> RequiredPlayers]

ActiveIds(qs) == {i \in 1..Len(qs) : qs[i].status \in {"waiting", "full"}}

\* Queue.getActiveQueue: oldest waiting/full pool, created when there is none
getActiveQueue(qs) ==
  IF ActiveIds(qs) # {}
  THEN [qs |-> qs, id |-> Min(ActiveIds(qs))]
  ELSE [qs |-> Append(qs, NewQueue), id |-> Len(qs) + 1]

InPool(q, u) == \E i \in 1..Len(q.players) : q.players[i].steamId = u

\* queueSchema.methods.addPlayer, for a player that passes both checks
addPlayer(q, u) ==
  LET ps == Append(q.players,
                   [steamId |-> u, position |-> Len(q.players) + 1, hasPriority |-> FALSE])
  IN [q EXCEPT !.players = ps,
               !.status = IF Len(ps) = q.requiredPlayers THEN "full" ELSE q.status]

Reposition(ps) == [i \in 1..Len(ps) |-> [ps[i] EXCEPT !.position = i]]

\* faulty variant of removePlayer: the last entry is moved into the gap
removePlayerSwapLast(q, u) ==
  LET k == CHOOSE i \in 1..Len(q.players) : q.players[i].steamId = u
      moved == [q.players EXCEPT ![k] = q.players[Len(q.players)]]
      ps == Reposition(SubSeq(moved, 1, Len(moved) - 1))
  IN [q EXCEPT !.players = ps,
               !.status = IF Len(ps) < q.requiredPlayers THEN "waiting" ELSE q.status]

\* queueSchema.methods.removePlayer, for a player that is in the pool
removePlayer(q, u) ==
  LET Keep(p) == p.steamId # u
      ps == Reposition(SelectSeq(q.players, Keep))
  IN [q EXCEPT !.players = ps,
               !.status = IF Len(ps) < q.requiredPlayers THEN "waiting" ELSE q.status]

isFull(q) == Len(q.players) >= q.requiredPlayers

\* ------------------------------------------------------ the ready service
\* faulty variant of startReadyPhase: the deadline is not taken from the clock
startReadyPhaseFixedDeadline(playerIds, queueGroupId, timeoutSeconds) ==
  [queueGroupId |-> queueGroupId,
   players |-> [i \in 1..Len(playerIds) |->
                  [userId |-> playerIds[i], accepted |-> FALSE, acceptedAt |-> NullDate]],
   expiresAt |-> timeoutSeconds,
   status |-> "active",
   ttlDeleted |-> FALSE]

\* readyService.startReadyPhase: the document it saves
startReadyPhase(playerIds, queueGroupId, timeoutSeconds) ==
  [queueGroupId |-> queueGroupId,
   players |-> [i \in 1..Len(playerIds) |->
                  [userId |-> playerIds[i], accepted |-> FALSE, acceptedAt |-> NullDate]],
   expiresAt |-> now + timeoutSeconds,
   status |-> "active",
   ttlDeleted |-> FALSE]

\* faulty variant of PlayerIndex: a user that is not found gets the first slot
PlayerIndexOrFirst(sess, u) ==
  LET S == {i \in 1..Len(sess.players) : sess.players[i].userId = u}
  IN IF S = {} THEN 1 ELSE Min(S)

\* session.players.findIndex(p => p.userId === userId), 0 for "not found"
PlayerIndex(sess, u) ==
  LET S == {i \in 1..Len(sess.players) : sess.players[i].userId = u}
  IN IF S = {} THEN 0 ELSE Min(S)

\* readyService.getSessionStats
getSessionStats(sess) ==
  LET acceptedCount == Cardinality({i \in 1..Len(sess.players) : sess.players[i].accepted})
  IN [totalPlayers |-> Len(sess.players),
      acceptedCount |-> acceptedCount,
      pendingCount |-> Len(sess.players) - acceptedCount,
      players |-> [i \in 1..Len(sess.players) |->
                     [userId |-> sess.players[i].userId, accepted |-> sess.players[i].accepted]],
      secondsRemaining |-> Max2(0, sess.expiresAt - now)]

\* ReadySession.findOne({ matchId, status: 'active' })
FindActive(ss, mid) ==
  IF mid \in 1..Len(ss) /\ ~ss[mid].ttlDeleted /\ ss[mid].status = "active"
  THEN ss[mid]
  ELSE NoDoc

\* faulty variant of SaveAccept: the whole loaded document is written back
SaveAcceptWholeDocument(ss, mid, snap, i) ==
  IF ss[mid].ttlDeleted THEN ss
  ELSE [ss EXCEPT ![mid] = [snap EXCEPT !.players[i].accepted = TRUE,
                                        !.players[i].acceptedAt = now]]

\* session.save() after `players[i].accepted = true; players[i].acceptedAt = new Date()`:
\* the two modified paths are $set on the stored document; nothing is written
\* when the document is gone (save then throws DocumentNotFoundError)
SaveAccept(ss, mid, snap, i) ==
  IF ss[mid].ttlDeleted THEN ss
  ELSE [ss EXCEPT ![mid].players[i].accepted = TRUE,
                  ![mid].players[i].acceptedAt = now]

\* faulty variant of recordPlayerAccept: the duplicate-accept branch is missing
recordPlayerAcceptNoDuplicateCheck(ss, mid, u) ==
  LET sess == FindActive(ss, mid)
  IN IF sess = NoDoc
     THEN [ss |-> ss, res |-> [error |-> "Session not found or expired"]]
     ELSE IF PlayerIndex(sess, u) = 0
     THEN [ss |-> ss, res |-> [error |-> "User not in session"]]
     ELSE LET ss1 == SaveAccept(ss, mid, sess, PlayerIndex(sess, u))
          IN [ss |-> ss1, res |-> [stats |-> getSessionStats(ss1[mid])]]

\* readyService.recordPlayerAccept run without another request in between:
\* the stored sessions afterwards and the value returned
recordPlayerAccept(ss, mid, u) ==
  LET sess == FindActive(ss, mid)
  IN IF sess = NoDoc
     THEN [ss |-> ss, res |-> [error |-> "Session not found or expired"]]
     ELSE IF PlayerIndex(sess, u) = 0
     THEN [ss |-> ss, res |-> [error |-> "User not in session"]]
     ELSE IF sess.players[PlayerIndex(sess, u)].accepted
     THEN [ss |-> ss, res |-> [stats |-> getSessionStats(sess)]]
     ELSE LET ss1 == SaveAccept(ss, mid, sess, PlayerIndex(sess, u))
          IN [ss |-> ss1, res |-> [stats |-> getSessionStats(ss1[mid])]]

\* readyService.checkAllAccepted
checkAllAccepted(ss, mid) ==
  LET sess == FindActive(ss, mid)
  IN IF sess = NoDoc THEN FALSE
     ELSE \A i \in 1..Len(sess.players) : sess.players[i].accepted

\* faulty variant of CasStatus: the update filters on matchId only
CasStatusAnyStatus(ss, mid, to) ==
  IF mid \in 1..Len(ss) /\ ~ss[mid].ttlDeleted THEN [ss EXCEPT ![mid].status = to] ELSE ss

\* findOneAndUpdate({ matchId, status: 'active' }, { status: to })
CasStatus(ss, mid, to) ==
  IF mid \in 1..Len(ss) /\ ~ss[mid].ttlDeleted /\ ss[mid].status = "active"
  THEN [ss EXCEPT ![mid].status = to]
  ELSE ss

\* readyService.completeReadyPhase
completeReadyPhase(ss, mid) == CasStatus(ss, mid, "completed")

\* readyService.cancelReadySession
cancelReadySession(ss, mid) == CasStatus(ss, mid, "cancelled")

Acceptors(sess) ==
  LET Keep(p) == p.accepted IN UserIds(SelectSeq(sess.players, Keep))

\* faulty variant of NonAcceptors: the filter on the accepted flag is dropped
NonAcceptorsUnfiltered(sess) == UserIds(sess.players)

NonAcceptors(sess) ==
  LET Keep(p) == ~p.accepted IN UserIds(SelectSeq(sess.players, Keep))

\* faulty variant of handleReadyTimeout: the update filters on matchId only
handleReadyTimeoutAnyStatus(ss, mid) ==
  IF mid \in 1..Len(ss) /\ ~ss[mid].ttlDeleted
  THEN [ss |-> [ss EXCEPT ![mid].status = "timeout"],
        result |-> [queueGroupId |-> ss[mid].queueGroupId,
                    nonAcceptors |-> NonAcceptors(ss[mid]),
                    acceptors |-> Acceptors(ss[mid])]]
  ELSE [ss |-> ss, result |-> NoDoc]

\* readyService.handleReadyTimeout: the stored sessions and the value returned
handleReadyTimeout(ss, mid) ==
  IF mid \in 1..Len(ss) /\ ~ss[mid].ttlDeleted /\ ss[mid].status = "active"
  THEN [ss |-> [ss EXCEPT ![mid].status = "timeout"],
        result |-> [queueGroupId |-> ss[mid].queueGroupId,
                    nonAcceptors |-> NonAcceptors(ss[mid]),
                    acceptors |-> Acceptors(ss[mid])]]
  ELSE [ss |-> ss, result |-> NoDoc]

\* ------------------------------------------------------------- the match
\* faulty variant of PickOrder: the captains alternate from the first pick
PickOrderAlternating == <<"alpha", "beta", "alpha", "beta", "alpha", "beta", "alpha", "beta">>

\* matchSchema.methods.generatePickOrder
PickOrder == <<"alpha", "alpha", "beta", "beta", "alpha", "beta", "alpha", "beta">>

\* Match.createMatch(players, captains) followed by generatePickOrder
createMatch(playerIds, captains, readyMatchId) ==
  [players |-> [i \in 1..Len(playerIds) |->
                  [steamId |-> playerIds[i],
                   team |-> IF playerIds[i] = captains[1] THEN "alpha"
                            ELSE IF playerIds[i] = captains[2] THEN "beta"
                            ELSE "undrafted"]],
   captains |-> [alpha |-> captains[1], beta |-> captains[2]],
   teams |-> [alpha |-> <<captains[1]>>, beta |-> <<captains[2]>>],
   phase |-> "accept",
   acceptPhase |-> [active |-> TRUE,
                    expiresAt |-> now + (MatchAcceptTimeoutMs \div 1000),
                    acceptedPlayers |-> <<>>,
                    requiredPlayers |-> playerIds],
   pickOrder |-> PickOrder,
   currentPicker |-> "alpha",
   pickIndex |-> 0,
   pickHistory |-> <<>>,
   availableMaps |-> AvailableMaps,
   bannedMaps |-> <<>>,
   selectedMap |-> NoMap,
   vetoOrder |-> <<>>,
   currentVeto |-> "alpha",
   vetoIndex |-> 0,
   serverInfo |-> NoDoc,
   result |-> [winner |-> NoWinner, score |-> [alpha |-> 0, beta |-> 0]],
   version |-> 0,                   \* __v, the version key of Mongoose
   readyMatchId |-> readyMatchId]   \* history: the session it was composed from

\* matchSchema.methods.endAcceptPhase
endAcceptPhase(m) ==
  [m EXCEPT !.acceptPhase.active = FALSE,
            !.phase = IF Len(m.acceptPhase.acceptedPlayers) >= Len(m.acceptPhase.requiredPlayers)
                      THEN "draft" ELSE "cancelled"]

Undrafted(m) == {i \in 1..Len(m.players) : m.players[i].team = "undrafted"}

\* a veto order that starts with beta
VetoOrderBetaFirst(m) ==
  [i \in 1..(Len(m.availableMaps) - 1) |-> IF (i - 1) % 2 = 0 THEN "beta" ELSE "alpha"]

\* the veto order generated inline by pickPlayer
VetoOrderFor(m) ==
  [i \in 1..(Len(m.availableMaps) - 1) |-> IF (i - 1) % 2 = 0 THEN "alpha" ELSE "beta"]

\* what pickPlayer does once the turn and the player are validated
ApplyPick(m, i, captain) ==
  LET m1 == [m EXCEPT !.teams[captain] = Append(@, m.players[i].steamId),
                      !.players[i].team = captain,
                      !.pickHistory = Append(@, [captain |-> captain,
                                                 steamId |-> m.players[i].steamId]),
                      !.pickIndex = @ + 1,
                      !.version = @ + 1]
  IN IF m1.pickIndex < Len(m1.pickOrder)
     THEN [m1 EXCEPT !.currentPicker = m1.pickOrder[m1.pickIndex + 1]]
     ELSE LET m2 == IF Undrafted(m1) = {} THEN m1
                    ELSE LET j == Min(Undrafted(m1))
                             team == IF Len(m1.teams.alpha) < Len(m1.teams.beta)
                                     THEN "alpha" ELSE "beta"
                         IN [m1 EXCEPT !.teams[team] = Append(@, m1.players[j].steamId),
                                       !.players[j].team = team]
          IN [m2 EXCEPT !.phase = "veto",
                        !.vetoOrder = VetoOrderFor(m2),
                        !.currentVeto = "alpha",
                        !.vetoIndex = 0]

\* faulty variant of pickPlayer: a player that is already on a team can be picked
pickPlayerAnyTeam(m, steamId, captain) ==
  IF m.currentPicker # captain THEN [error |-> "Not this captain's turn"]
  ELSE LET S == {i \in 1..Len(m.players) : m.players[i].steamId = steamId}
       IN IF S = {} THEN [error |-> "Player not found or already drafted"]
          ELSE ApplyPick(m, Min(S), captain)

\* matchSchema.methods.pickPlayer: the document it saves, or the error it throws
pickPlayer(m, steamId, captain) ==
  IF m.currentPicker # captain THEN [error |-> "Not this captain's turn"]
  ELSE LET S == {i \in Undrafted(m) : m.players[i].steamId = steamId}
       IN IF S = {} THEN [error |-> "Player not found or already drafted"]
          ELSE ApplyPick(m, Min(S), captain)

\* outcomes of the random captain draw over the roster (every player is captain
\* eligible by default, the shuffle can put any two first): alpha is one of the
\* first MaxCaptainDraws players and beta the player after alpha
CaptainPairs(playerIds) ==
  {<<playerIds[a], playerIds[(a % Len(playerIds)) + 1]>> :
     a \in 1..Min({MaxCaptainDraws, Len(playerIds)})}

\* ------------------------------------------------------------------- Init
Idle == [pc |-> "idle", mid |-> 0, snap |-> NoDoc, res |-> NoDoc]
NoTimer == [state |-> "none", due |-> 0, result |-> NoDoc]
NoRequest == [op |-> "none"]
\* no provisionServer call was made for the match
NoProv == [state |-> "none", by |-> "none"]
\* serverInfo as provisionServer returns it
ServerInfo == [connectString |-> "connect"]
\* the value of a property that an object does not have; no steamId equals it
Undefined == 0
\* defaults of userSchema.stats
NewStats == [matchesPlayed |-> 0, wins |-> 0, losses |-> 0, rating |-> StartRating]
NoJoin == [pc |-> "idle", userId |-> 0, qid |-> 0, mem |-> NoDoc, matchId |-> 0]

Init ==
  /\ now = 0
  /\ queues = <<>>
  /\ inQueue = [u \in Users |-> FALSE]
  /\ currentMatch = [u \in Users |-> 0]
  /\ sessions = <<>>
  /\ timers = <<>>
  /\ matches = <<>>
  /\ acc = [u \in Users |-> Idle]
  /\ joins = [u \in Users |-> 0]
  /\ replies = <<>>
  /\ qlog = [seq |-> 0, op |-> "none"]
  /\ jq = [r \in 1..MaxJoinsInFlight |-> NoJoin]
  /\ mlog = NoRequest
  /\ prov = <<>>
  /\ stats = [u \in Users |-> NewStats]


\* ---------------------------------------------------------------- actions
InFlight == Cardinality({u \in Users : acc[u].pc # "idle"})

\* middleware canJoinQueue: the user's currentMatch after the stale-reference
\* check, or -1 when the request is rejected
canJoinQueue(u) ==
  IF inQueue[u] THEN -1
  ELSE IF currentMatch[u] = 0 THEN 0
  ELSE IF currentMatch[u] \notin 1..Len(matches)
          \/ matches[currentMatch[u]].phase \in {"completed", "cancelled"}
       THEN 0
       ELSE -1

\* the provisional match id `PEND-${Date.now()}` of the k-th ready session
provisionalMatchId(k) == <<"PEND-", k>>

\* res.json of joinQueue when the pool filled
JoinFullResponse(u, k) ==
  [seq |-> 1 - qlog.seq, op |-> "join", userId |-> u, code |-> 200,
   message |-> "Queue full - match created!",
   matchId |-> provisionalMatchId(k),
   queue |-> [players |-> <<>>, status |-> "completed"]]

\* res.json of joinQueue when the pool did not fill
JoinedResponse(u, q) ==
  [seq |-> 1 - qlog.seq, op |-> "join", userId |-> u, code |-> 200,
   message |-> "Joined queue successfully",
   queue |-> [players |-> SteamIds(q.players), status |-> q.status]]

\* res.status(code).json({ success: false, error })
ErrorResponse(op, u, code, error) ==
  [seq |-> 1 - qlog.seq, op |-> op, userId |-> u, code |-> code, error |-> error]

\* POST /queue/join (canJoinQueue, then joinQueue), for a request that is served
JoinQueue(u) ==
  /\ joins[u] < MaxJoinsPerUser
  \* users are interchangeable: new ones arrive in id order
  /\ joins[u] = 0 => \A v \in 1..(u - 1) : joins[v] > 0
  /\ canJoinQueue(u) = 0
  /\ LET g == getActiveQueue(queues)
         q == g.qs[g.id]
     IN /\ ~InPool(q, u)
        /\ Len(q.players) < q.requiredPlayers
        /\ LET q1 == addPlayer(q, u)
           IN IF isFull(q1)
              THEN /\ sessions' = Append(sessions,
                        startReadyPhase(SteamIds(q1.players), g.id,
                                        AcceptPhaseTimeoutMs \div 1000))
                   /\ timers' = Append(timers, NoTimer)
                   /\ queues' = [g.qs EXCEPT ![g.id] = [q1 EXCEPT !.status = "completed"]]
                   /\ qlog' = JoinFullResponse(u, Len(sessions) + 1)
              ELSE /\ queues' = [g.qs EXCEPT ![g.id] = q1]
                   /\ qlog' = JoinedResponse(u, q1)
                   /\ UNCHANGED <<sessions, timers>>
  /\ inQueue' = [inQueue EXCEPT ![u] = TRUE]
  /\ currentMatch' = [currentMatch EXCEPT ![u] = 0]
  /\ joins' = [joins EXCEPT ![u] = joins[u] + 1]
  /\ UNCHANGED <<now, matches, acc, replies, jq, mlog, prov, stats>>

\* POST /queue/leave: the whole handler, rejection included
LeaveQueue(u) ==
  /\ LET g == getActiveQueue(queues)
         q == g.qs[g.id]
     IN IF ~InPool(q, u)
        THEN /\ queues' = g.qs
             /\ qlog' = ErrorResponse("leave", u, 400, "Not in queue")
             /\ UNCHANGED inQueue
        ELSE /\ queues' = [g.qs EXCEPT ![g.id] = removePlayer(q, u)]
             /\ inQueue' = [inQueue EXCEPT ![u] = FALSE]
             /\ qlog' = [seq |-> 1 - qlog.seq, op |-> "leave", userId |-> u, code |-> 200,
                         message |-> "Left queue successfully",
                         queue |-> [players |-> SteamIds(removePlayer(q, u).players)]]
  /\ UNCHANGED <<now, currentMatch, sessions, timers, matches, acc, joins, replies, jq,
                 mlog, prov, stats>>

\* ------------------------------------------- joinQueue, await by await
RECURSIVE SumJoins(_)
SumJoins(n) == IF n = 0 THEN 0 ELSE joins[n] + SumJoins(n - 1)

\* canJoinQueue and joinQueue up to the save of addPlayer: the user document
\* read by authenticate, the pool read by getActiveQueue, the duplicate check
\* and the checks and the push of addPlayer on the document in memory
JoinLoad(r, u) ==
  /\ jq[r].pc = "idle"
  /\ \A r2 \in 1..(r - 1) : jq[r2].pc # "idle"
  /\ SumJoins(NumUsers) < MaxJoinRequests
  /\ joins[u] = 0 => \A v \in 1..(u - 1) : joins[v] > 0
  /\ joins' = [joins EXCEPT ![u] = joins[u] + 1]
  /\ IF canJoinQueue(u) # 0
     THEN /\ qlog' = ErrorResponse("join", u, 400,
                        IF inQueue[u] THEN "Already in queue"
                                      ELSE "Already in an active match")
          /\ UNCHANGED <<queues, currentMatch, jq>>
     ELSE LET g == getActiveQueue(queues)
              q == g.qs[g.id]
          IN /\ queues' = g.qs
             /\ currentMatch' = [currentMatch EXCEPT ![u] = 0]
             /\ IF InPool(q, u)
                THEN /\ qlog' = ErrorResponse("join", u, 400, "Already in queue")
                     /\ UNCHANGED jq
                ELSE IF Len(q.players) >= q.requiredPlayers
                THEN \* addPlayer throws 'Queue is full', the handler answers 500
                     /\ qlog' = ErrorResponse("join", u, 500, "Failed to join queue")
                     /\ UNCHANGED jq
                ELSE /\ jq' = [jq EXCEPT ![r] = [pc |-> "pushed", userId |-> u, qid |-> g.id,
                                                  mem |-> addPlayer(q, u), matchId |-> 0]]
                     /\ UNCHANGED qlog
  /\ UNCHANGED <<now, inQueue, sessions, timers, matches, acc, replies, mlog, prov, stats>>

\* this.save() of addPlayer: the pushed entry is sent as a $push of that one
\* entry (the version is incremented, not compared) and status as a $set when
\* addPlayer assigned it
JoinSave(r) ==
  /\ jq[r].pc = "pushed"
  /\ LET mem == jq[r].mem
         entry == mem.players[Len(mem.players)]
     IN queues' = [queues EXCEPT
                     ![jq[r].qid].players = Append(@, entry),
                     ![jq[r].qid].status =
                        IF Len(mem.players) = mem.requiredPlayers THEN "full" ELSE @]
  /\ jq' = [jq EXCEPT ![r].pc = "saved"]
  /\ UNCHANGED <<now, inQueue, currentMatch, sessions, timers, matches, acc, joins, replies,
                 qlog, mlog, prov, stats>>

\* req.user.inQueue = true; req.user.save(); then the response when the pool
\* in memory is not full
JoinFlag(r) ==
  /\ jq[r].pc = "saved"
  /\ inQueue' = [inQueue EXCEPT ![jq[r].userId] = TRUE]
  /\ IF isFull(jq[r].mem)
     THEN /\ jq' = [jq EXCEPT ![r].pc = "full"]
          /\ UNCHANGED qlog
     ELSE /\ jq' = [jq EXCEPT ![r] = NoJoin]
          /\ qlog' = JoinedResponse(jq[r].userId, jq[r].mem)
  /\ UNCHANGED <<now, queues, currentMatch, sessions, timers, matches, acc, joins, replies,
                 mlog, prov, stats>>

\* queue.status = 'processing'; queue.save()
JoinProcessing(r) ==
  /\ jq[r].pc = "full"
  /\ queues' = [queues EXCEPT ![jq[r].qid].status = "processing"]
  /\ jq' = [jq EXCEPT ![r].pc = "processing", ![r].mem.status = "processing"]
  /\ UNCHANGED <<now, inQueue, currentMatch, sessions, timers, matches, acc, joins, replies,
                 qlog, mlog, prov, stats>>

\* readyService.startReadyPhase for the players of the pool in memory
JoinStartReady(r) ==
  /\ jq[r].pc = "processing"
  /\ sessions' = Append(sessions,
                        startReadyPhase(SteamIds(jq[r].mem.players), jq[r].qid,
                                        AcceptPhaseTimeoutMs \div 1000))
  /\ timers' = Append(timers, NoTimer)
  /\ jq' = [jq EXCEPT ![r].pc = "started", ![r].matchId = Len(sessions) + 1]
  /\ UNCHANGED <<now, queues, inQueue, currentMatch, matches, acc, joins, replies, qlog,
                 mlog, prov, stats>>

\* queue.status = 'completed'; queue.save(); then the response
JoinDone(r) ==
  /\ jq[r].pc = "started"
  /\ queues' = [queues EXCEPT ![jq[r].qid].status = "completed"]
  /\ qlog' = JoinFullResponse(jq[r].userId, jq[r].matchId)
  /\ jq' = [jq EXCEPT ![r] = NoJoin]
  /\ UNCHANGED <<now, inQueue, currentMatch, sessions, timers, matches, acc, joins, replies,
                 mlog, prov, stats>>

\* acceptReady / 'match:ready:accept', first await: recordPlayerAccept up to
\* its findOne, with the three early returns; an error is answered at once and
\* the request is over
AcceptFind(u, mid) ==
  /\ acc[u].pc = "idle"
  /\ InFlight < MaxInFlight
  /\ mid \in 1..Len(sessions)
  /\ LET sess == FindActive(sessions, mid)
     IN acc' = [acc EXCEPT ![u] =
          IF sess = NoDoc \/ PlayerIndex(sess, u) = 0
          THEN Idle
          ELSE IF sess.players[PlayerIndex(sess, u)].accepted
          THEN [pc |-> "recorded", mid |-> mid, snap |-> NoDoc,
                res |-> [stats |-> getSessionStats(sess)]]
          ELSE [pc |-> "loaded", mid |-> mid, snap |-> sess, res |-> NoDoc]]
  /\ UNCHANGED <<now, queues, inQueue, currentMatch, sessions, timers, matches, joins, replies, qlog, jq,
                 mlog, prov, stats>>

\* recordPlayerAccept, second await: set the flag on the loaded document and
\* save; when the document is gone the save throws and the request ends with
\* an error response
AcceptSave(u) ==
  /\ acc[u].pc = "loaded"
  /\ LET i == PlayerIndex(acc[u].snap, u)
         mem == [acc[u].snap EXCEPT !.players[i].accepted = TRUE,
                                    !.players[i].acceptedAt = now]
     IN /\ sessions' = SaveAccept(sessions, acc[u].mid, acc[u].snap, i)
        /\ acc' = [acc EXCEPT ![u] =
             IF sessions[acc[u].mid].ttlDeleted
             THEN Idle
             ELSE [pc |-> "recorded", mid |-> acc[u].mid, snap |-> NoDoc,
                   res |-> [stats |-> getSessionStats(mem)]]]
  /\ UNCHANGED <<now, queues, inQueue, currentMatch, timers, matches, joins, replies, qlog, jq,
                 mlog, prov, stats>>

\* the handler emits 'match:ready:update' with result.stats, then runs
\* checkAllAccepted; when it is false the response is sent and the request is over
AcceptCheck(u) ==
  /\ acc[u].pc = "recorded"
  /\ acc' = [acc EXCEPT ![u] =
                IF checkAllAccepted(sessions, acc[u].mid)
                THEN [pc |-> "checked", mid |-> acc[u].mid, snap |-> NoDoc, res |-> NoDoc]
                ELSE Idle]
  /\ UNCHANGED <<now, queues, inQueue, currentMatch, sessions, timers, matches, joins, replies, qlog, jq,
                 mlog, prov, stats>>

\* the handler's completeReadyPhase; its return value is not looked at
AcceptComplete(u) ==
  /\ acc[u].pc = "checked"
  /\ sessions' = completeReadyPhase(sessions, acc[u].mid)
  /\ acc' = [acc EXCEPT ![u].pc = "completing"]
  /\ UNCHANGED <<now, queues, inQueue, currentMatch, timers, matches, joins, replies, qlog, jq,
                 mlog, prov, stats>>

\* createMatchFromReadySession: findOne({ matchId }) in any status, captains,
\* Match.createMatch, then User.updateMany over the roster; the events are
\* emitted, the response is sent and the request is over
AcceptCreate(u) ==
  /\ acc[u].pc = "completing"
  /\ LET mid == acc[u].mid
         playerIds == UserIds(sessions[mid].players)
     IN IF sessions[mid].ttlDeleted
        THEN UNCHANGED <<matches, currentMatch, inQueue>>   \* returns null
        ELSE \E captains \in CaptainPairs(playerIds) :
               /\ matches' = Append(matches, createMatch(playerIds, captains, mid))
               /\ currentMatch' = [v \in Users |->
                    IF v \in SeqToSet(playerIds) THEN Len(matches) + 1 ELSE currentMatch[v]]
               /\ inQueue' = [v \in Users |->
                    IF v \in SeqToSet(playerIds) THEN FALSE ELSE inQueue[v]]
  /\ acc' = [acc EXCEPT ![u] = Idle]
  /\ UNCHANGED <<now, queues, sessions, timers, joins, replies, qlog, jq, mlog, prov, stats>>

TimedSessions == {m \in 1..Len(sessions) : timers[m].state # "none"}

\* sockets startReadyPhaseMatch(matchData, onTimeout), called once per pool
\* for the roster of that pool: startReadyPhase, then initializeReadyTimeout
\* arms the one timer
StartReadyPhaseMatch(qid) ==
  /\ \A m \in TimedSessions : sessions[m].queueGroupId # qid
  /\ qid \in 1..Len(queues)
  /\ Len(queues[qid].players) = RequiredPlayers
  /\ sessions' = Append(sessions,
       startReadyPhase(SteamIds(queues[qid].players), qid, TIMEOUT_SECONDS))
  /\ timers' = Append(timers,
       [state |-> "armed", due |-> now + TIMEOUT_SECONDS, result |-> NoDoc])
  /\ UNCHANGED <<now, queues, inQueue, currentMatch, matches, acc, joins, replies, qlog, jq,
                 mlog, prov, stats>>

\* the setTimeout body of initializeReadyTimeout: handleReadyTimeout, and the
\* callback is only entered for a non-null result
TimerFire(mid) ==
  /\ mid \in 1..Len(timers)
  /\ timers[mid].state = "armed"
  /\ now >= timers[mid].due
  /\ LET h == handleReadyTimeout(sessions, mid)
     IN /\ sessions' = h.ss
        /\ timers' = [timers EXCEPT ![mid] =
             [state |-> IF h.result = NoDoc THEN "done" ELSE "callback",
              due |-> timers[mid].due, result |-> h.result]]
  /\ UNCHANGED <<now, queues, inQueue, currentMatch, matches, acc, joins, replies, qlog, jq,
                 mlog, prov, stats>>

\* the pool after the timeout callback of startReadyPhaseMatch
TimeoutQueue(q, result) ==
  LET acceptedSet == SeqToSet(result.acceptors)
      sessionPlayerIds == SeqToSet(result.acceptors \o result.nonAcceptors)
      IsAccepted(p) == p.steamId \in sessionPlayerIds /\ p.steamId \in acceptedSet
      NotSession(p) == p.steamId \notin sessionPlayerIds
      acceptedPlayersInQueue ==
        LET a == SelectSeq(q.players, IsAccepted)
        IN [i \in 1..Len(a) |-> [a[i] EXCEPT !.hasPriority = TRUE]]
      newPlayers == Reposition(acceptedPlayersInQueue \o SelectSeq(q.players, NotSession))
  IN [q EXCEPT !.players = newPlayers,
               !.status = IF Len(newPlayers) >= q.requiredPlayers THEN "full" ELSE "waiting"]

\* the onTimeout callback of startReadyPhaseMatch: rebuild the linked pool and
\* clear inQueue of the non-acceptors
TimeoutCallback(mid) ==
  /\ mid \in 1..Len(timers)
  /\ timers[mid].state = "callback"
  /\ LET result == timers[mid].result
         qid == result.queueGroupId
         removedSteamIds == SeqToSet(result.acceptors \o result.nonAcceptors)
                              \ SeqToSet(result.acceptors)
     IN /\ queues' = [queues EXCEPT ![qid] = TimeoutQueue(queues[qid], result)]
        /\ inQueue' = [v \in Users |-> IF v \in removedSteamIds THEN FALSE ELSE inQueue[v]]
  /\ timers' = [timers EXCEPT ![mid].state = "done"]
  /\ UNCHANGED <<now, currentMatch, sessions, matches, acc, joins, replies, qlog, jq,
                 mlog, prov, stats>>

\* readyService.cancelReadySession called on a session of the socket layer, in
\* whatever status it is
CancelReadySession(mid) ==
  /\ mid \in TimedSessions
  /\ sessions' = cancelReadySession(sessions, mid)
  /\ UNCHANGED <<now, queues, inQueue, currentMatch, timers, matches, acc, joins, replies, qlog, jq,
                 mlog, prov, stats>>

\* the TTL index on expiresAt (expireAfterSeconds: 0): the database removes a
\* ready session, in whatever status, some time after its expiresAt
TtlExpire(mid) ==
  /\ mid \in 1..Len(sessions)
  /\ ~sessions[mid].ttlDeleted
  /\ now > sessions[mid].expiresAt
  /\ sessions' = [sessions EXCEPT ![mid].ttlDeleted = TRUE]
  /\ UNCHANGED <<now, queues, inQueue, currentMatch, timers, matches, acc, joins, replies, qlog, jq,
                 mlog, prov, stats>>

\* the clock advances; it is only read relative to a session's expiresAt, so
\* it starts counting once `started` holds
TickWhen(started) ==
  /\ now + TickSeconds <= MaxTime
  /\ started
  /\ now' = now + TickSeconds
  /\ UNCHANGED <<queues, inQueue, currentMatch, sessions, timers, matches, acc, joins, replies, qlog, jq,
                 mlog, prov, stats>>

Tick == TickWhen(sessions # <<>>)

\* The program as it is wired: joinQueue starts the ready session itself and
\* nothing calls startReadyPhaseMatch or cancelReadySession.
Next ==
  \/ \E u \in Users : JoinQueue(u)
  \/ \E u \in Users, mid \in DocIds : AcceptFind(u, mid)
  \/ \E u \in Users : AcceptSave(u)
  \/ \E u \in Users : AcceptCheck(u)
  \/ \E u \in Users : AcceptComplete(u)
  \/ \E u \in Users : AcceptCreate(u)
  \/ \E mid \in DocIds : TtlExpire(mid)
  \/ Tick

Spec == Init /\ [][Next]_vars

\* acceptReady served from its first line to its response with no other request
\* in between: recordPlayerAccept, then checkAllAccepted, completeReadyPhase
\* and createMatchFromReadySession; the request and its reply are logged
AcceptReady(u, mid) ==
  \* one match id that was never issued stands for all of them
  /\ mid \in 1..(Len(sessions) + 1)
  /\ LET r == recordPlayerAccept(sessions, mid, u)
         playerIds == UserIds(sessions[mid].players)
     IN /\ IF "stats" \in DOMAIN r.res /\ checkAllAccepted(r.ss, mid)
           THEN /\ sessions' = completeReadyPhase(r.ss, mid)
                /\ \E captains \in CaptainPairs(playerIds) :
                     matches' = Append(matches, createMatch(playerIds, captains, mid))
                /\ currentMatch' = [v \in Users |->
                     IF v \in SeqToSet(playerIds) THEN Len(matches) + 1 ELSE currentMatch[v]]
                /\ inQueue' = [v \in Users |->
                     IF v \in SeqToSet(playerIds) THEN FALSE ELSE inQueue[v]]
           ELSE /\ sessions' = r.ss
                /\ UNCHANGED <<matches, currentMatch, inQueue>>
        /\ replies' = (IF Len(replies) = 2 THEN Tail(replies) ELSE replies)
                        \o <<[userId |-> u, mid |-> mid, res |-> r.res,
                              active |-> /\ mid \in 1..Len(sessions)
                                         /\ ~sessions[mid].ttlDeleted
                                         /\ sessions[mid].status = "active",
                              created |-> \/ Len(sessions') # Len(sessions)
                                          \/ matches' # matches,
                              changed |-> sessions' # sessions]>>
  /\ UNCHANGED <<now, queues, timers, acc, joins, qlog, jq, mlog, prov, stats>>

\* The accept requests of the program served one at a time.
NextIdem ==
  \/ \E u \in Users : JoinQueue(u)
  \/ \E u \in Users, mid \in DocIds : AcceptReady(u, mid)
  \/ \E mid \in DocIds : TtlExpire(mid)
  \/ Tick

SpecIdem == Init /\ [][NextIdem]_vars

\* The queue requests served one at a time, at any time.
TickQueue == TickWhen(TRUE)

NextQueue ==
  \/ \E u \in Users : JoinQueue(u)
  \/ \E u \in Users : LeaveQueue(u)
  \/ TickQueue

SpecQueue == Init /\ [][NextQueue]_vars

\* The queue requests of a population smaller than the unscaled pool: the
\* waiting pool exists and never fills, players come and go.
InitPool ==
  /\ now = 0
  /\ queues = <<[NewQueue EXCEPT !.requiredPlayers = SchemaRequiredPlayers]>>
  /\ inQueue = [u \in Users |-> FALSE]
  /\ currentMatch = [u \in Users |-> 0]
  /\ sessions = <<>>
  /\ timers = <<>>
  /\ matches = <<>>
  /\ acc = [u \in Users |-> Idle]
  /\ joins = [u \in Users |-> 0]
  /\ replies = <<>>
  /\ qlog = [seq |-> 0, op |-> "none"]
  /\ jq = [r \in 1..MaxJoinsInFlight |-> NoJoin]
  /\ mlog = NoRequest
  /\ prov = <<>>
  /\ stats = [u \in Users |-> NewStats]

NextPool ==
  \/ \E u \in Users : JoinQueue(u)
  \/ \E u \in Users : LeaveQueue(u)
  \/ TickQueue

SpecPool == InitPool /\ [][NextPool]_vars

\* Join requests that overlap: every await of joinQueue is a point where
\* another request may run.
NextRace ==
  \/ \E r \in 1..MaxJoinsInFlight, u \in Users : JoinLoad(r, u)
  \/ \E r \in 1..MaxJoinsInFlight : JoinSave(r)
  \/ \E r \in 1..MaxJoinsInFlight : JoinFlag(r)
  \/ \E r \in 1..MaxJoinsInFlight : JoinProcessing(r)
  \/ \E r \in 1..MaxJoinsInFlight : JoinStartReady(r)
  \/ \E r \in 1..MaxJoinsInFlight : JoinDone(r)

SpecRace == Init /\ [][NextRace]_vars

\* the values of matchSchema.phase
Phases == {"accept", "draft", "veto", "ready", "live", "complete", "cancelled"}

\* Users whose currentMatch refers to a match in any phase, or to a match that
\* was deleted (index 2), and who ask to join the queue.
InitStale ==
  /\ now = 0
  /\ queues = <<>>
  /\ inQueue = [u \in Users |-> FALSE]
  /\ \E c \in {1, 2} : currentMatch = [u \in Users |-> c]
  /\ sessions = <<>>
  /\ timers = <<>>
  /\ \E ph \in Phases :
       matches = <<[createMatch([i \in 1..RequiredPlayers |-> i], <<1, 2>>, 0)
                      EXCEPT !.phase = ph, !.acceptPhase.active = (ph = "accept")]>>
  /\ acc = [u \in Users |-> Idle]
  /\ joins = [u \in Users |-> 0]
  /\ replies = <<>>
  /\ qlog = [seq |-> 0, op |-> "none"]
  /\ jq = [r \in 1..MaxJoinsInFlight |-> NoJoin]
  /\ mlog = NoRequest
  /\ prov = <<NoProv>>
  /\ stats = [u \in Users |-> NewStats]

SpecStale == InitStale /\ [][NextRace]_vars

\* faulty variant of ApplyBan: the turn stays with the side that banned
ApplyBanSameSide(m, mapName, captain) ==
  LET NotBanned(x) == x # mapName
      maps == SelectSeq(m.availableMaps, NotBanned)
      m1 == [m EXCEPT !.availableMaps = maps,
                      !.bannedMaps = Append(@, [map |-> mapName, bannedBy |-> captain]),
                      !.version = @ + 1]
  IN IF Len(maps) = 1
     THEN [m1 EXCEPT !.selectedMap = maps[1], !.phase = "ready"]
     ELSE [m1 EXCEPT !.vetoIndex = @ + 1]

\* what banMap does once the turn and the map are validated
ApplyBan(m, mapName, captain) ==
  LET NotBanned(x) == x # mapName
      maps == SelectSeq(m.availableMaps, NotBanned)
      m1 == [m EXCEPT !.availableMaps = maps,
                      !.bannedMaps = Append(@, [map |-> mapName, bannedBy |-> captain]),
                      !.version = @ + 1]
  IN IF Len(maps) = 1
     THEN [m1 EXCEPT !.selectedMap = maps[1], !.phase = "ready"]
     ELSE [m1 EXCEPT !.vetoIndex = @ + 1,
                     !.currentVeto = IF @ = "alpha" THEN "beta" ELSE "alpha"]

\* faulty variant of banMap: the map is not looked up in availableMaps
banMapAnyMap(m, mapName, captain) ==
  IF m.currentVeto # captain THEN [error |-> "Not this captain's turn"]
  ELSE ApplyBan(m, mapName, captain)

\* matchSchema.methods.banMap: the document it saves, or the error it throws
banMap(m, mapName, captain) ==
  IF m.currentVeto # captain THEN [error |-> "Not this captain's turn"]
  ELSE IF mapName \notin SeqToSet(m.availableMaps)
  THEN [error |-> "Map not available or already banned"]
  ELSE ApplyBan(m, mapName, captain)

\* the maps of the pool of the scaled match, and a name that is no map
MapNames == SeqToSet(SubSeq(AvailableMaps, 1, MapPool)) \cup {"Unknown"}

\* a pick is sent for a captain, a drafted player, a stranger, or one of the
\* first MaxPickChoices players still undrafted
PickTarget(m, steamId) ==
  \A i \in Undrafted(m) :
    m.players[i].steamId = steamId =>
      Cardinality({j \in Undrafted(m) : j < i}) < MaxPickChoices

\* match.pickPlayer as the pick route and the automatic pick call it on a
\* match in draft, with the call and its outcome logged; the route's own
\* checks (verifyTurn, 'Player not in match') test conditions that pickPlayer
\* tests again
PickRequest(k, steamId, captain) ==
  /\ k \in 1..Len(matches)
  /\ matches[k].phase = "draft"
  /\ PickTarget(matches[k], steamId)
  /\ LET r == pickPlayer(matches[k], steamId, captain)
     IN /\ matches' = IF "error" \in DOMAIN r THEN matches ELSE [matches EXCEPT ![k] = r]
        /\ mlog' = [op |-> "pick", k |-> k, target |-> steamId, captain |-> captain,
                    rejected |-> "error" \in DOMAIN r]
  /\ UNCHANGED <<now, queues, inQueue, currentMatch, sessions, timers, acc, joins, replies,
                 qlog, jq, prov, stats>>

\* match.banMap as the ban route and the automatic ban call it on a match in
\* veto, with the call and its outcome logged
BanRequest(k, mapName, captain) ==
  /\ k \in 1..Len(matches)
  /\ matches[k].phase = "veto"
  /\ LET r == banMap(matches[k], mapName, captain)
     IN /\ matches' = IF "error" \in DOMAIN r THEN matches ELSE [matches EXCEPT ![k] = r]
        /\ mlog' = [op |-> "ban", k |-> k, target |-> mapName, captain |-> captain,
                    rejected |-> "error" \in DOMAIN r]
        /\ prov' = IF "error" \notin DOMAIN r /\ r.phase = "ready"
                    THEN [prov EXCEPT ![k] = [state |-> "pending", by |-> "http"]]
                    ELSE prov
  /\ UNCHANGED <<now, queues, inQueue, currentMatch, sessions, timers, acc, joins, replies,
                 qlog, jq, stats>>

\* one round of the interval of autoBanForTestPlayers on a match in veto whose
\* side in turn has a simulated captain: a random available map is banned; on
\* the last ban provisionServer is awaited
AutoBan(k, mapName) ==
  /\ k \in 1..Len(matches)
  /\ matches[k].phase = "veto"
  /\ Len(matches[k].availableMaps) >= 2
  /\ mapName \in SeqToSet(matches[k].availableMaps)
  /\ LET r == banMap(matches[k], mapName, matches[k].currentVeto)
     IN /\ matches' = [matches EXCEPT ![k] = r]
        /\ prov' = IF r.phase = "ready"
                    THEN [prov EXCEPT ![k] = [state |-> "pending", by |-> "auto"]]
                    ELSE prov
  /\ UNCHANGED <<now, queues, inQueue, currentMatch, sessions, timers, acc, joins, replies,
                 qlog, jq, mlog, stats>>

\* provisionServer settles for the request that ended the veto. The ban route
\* saves phase live from its in-memory document whatever the outcome, with
\* serverInfo on success; the automatic ban saves only on success. save() sets
\* the modified paths of the stored document whatever its phase is by then.
ProvisionDone(k, success) ==
  /\ k \in 1..Len(matches)
  /\ prov[k].state = "pending"
  /\ matches' = IF success
                THEN [matches EXCEPT ![k].phase = "live", ![k].serverInfo = ServerInfo]
                ELSE IF prov[k].by = "http"
                THEN [matches EXCEPT ![k].phase = "live"]
                ELSE matches
  /\ prov' = [prov EXCEPT ![k] = [state |-> "done", by |-> prov[k].by]]
  /\ UNCHANGED <<now, queues, inQueue, currentMatch, sessions, timers, acc, joins, replies,
                 qlog, jq, mlog, stats>>

\* faulty variant of updateStats: a loss is not floored at 0
updateStatsNoFloor(s, won) ==
  LET s1 == [s EXCEPT !.matchesPlayed = @ + 1]
  IN IF won THEN [s1 EXCEPT !.wins = @ + 1, !.rating = @ + RatingStep]
     ELSE [s1 EXCEPT !.losses = @ + 1, !.rating = @ - RatingStep]

\* userSchema.methods.updateStats
updateStats(s, won) ==
  LET s1 == [s EXCEPT !.matchesPlayed = @ + 1]
  IN IF won THEN [s1 EXCEPT !.wins = @ + 1, !.rating = @ + RatingStep]
     ELSE [s1 EXCEPT !.losses = @ + 1, !.rating = Max2(0, @ - RatingStep)]

\* updateStats applied n times to the same user
RECURSIVE updateStatsTimes(_, _, _)
updateStatsTimes(s, won, n) ==
  IF n = 0 THEN s ELSE updateStatsTimes(updateStats(s, won), won, n - 1)

\* matchSchema.methods.completeMatch: the document it saves, or the validation
\* error of save() for a winner outside the enum of result.winner
completeMatch(m, winner) ==
  IF winner \notin {"alpha", "beta", "draw"} THEN [error |-> "ValidationError"]
  ELSE [m EXCEPT !.phase = "complete", !.result.winner = winner]

\* p.steamId for p an entry of teams.alpha or teams.beta: the entries are
\* steamId strings, which have no such property
SteamIdOfTeamEntry(p) == Undefined

\* the statistics part of the complete controller for match document m: hit is
\* what User.findOne({ steamId: undefined }) returns: null (0), or, where the
\* build drops the undefined key from the filter, some user.
CompleteFanOut(m, winner, hit) ==
  LET loser == IF winner = "alpha" THEN "beta" ELSE "alpha"
      ids(team) == {SteamIdOfTeamEntry(team[i]) : i \in 1..Len(team)}
      found(team) == {u \in DOMAIN stats : u = hit /\ ids(team) # {}}
      all == {m.players[i].steamId : i \in 1..Len(m.players)}
  IN IF winner = "tie"
     THEN /\ currentMatch' = [u \in DOMAIN currentMatch |->
                                IF u \in all THEN 0 ELSE currentMatch[u]]
          /\ stats' = [u \in DOMAIN stats |->
                         IF u \in all THEN [stats[u] EXCEPT !.matchesPlayed = @ + 1]
                         ELSE stats[u]]
     ELSE LET W == m.teams[winner]
              L == m.teams[loser]
              touched == {u \in DOMAIN stats : u \in ids(W) \cup ids(L)}
              s1 == [u \in DOMAIN stats |->
                       IF u \in touched THEN [stats[u] EXCEPT !.matchesPlayed = @ + 1]
                       ELSE stats[u]]
              s2 == [u \in DOMAIN stats |->
                       IF u \in found(W) THEN updateStatsTimes(s1[u], TRUE, Len(W))
                       ELSE s1[u]]
          IN /\ currentMatch' = [u \in DOMAIN currentMatch |->
                                   IF u \in touched THEN 0 ELSE currentMatch[u]]
             /\ stats' = [u \in DOMAIN stats |->
                            IF u \in found(L) THEN updateStatsTimes(s2[u], FALSE, Len(L))
                            ELSE s2[u]]

\* POST /match/:matchId/complete (requirePhase('live')), logged
CompleteMatch(k, winner, hit) ==
  /\ k \in 1..Len(matches)
  /\ matches[k].phase = "live"
  /\ hit \in {0} \cup DOMAIN stats
  /\ LET m == matches[k]
         r == completeMatch(m, winner)
         bad == winner \notin {"alpha", "beta", "tie"}
         failed == bad \/ "error" \in DOMAIN r
     IN /\ mlog' = [op |-> "complete", k |-> k, target |-> winner, captain |-> "admin",
                    rejected |-> failed]
        /\ matches' = IF failed THEN matches ELSE [matches EXCEPT ![k] = r]
        /\ IF failed THEN UNCHANGED <<currentMatch, stats>>
           ELSE CompleteFanOut(m, winner, hit)
  /\ UNCHANGED <<now, queues, inQueue, sessions, timers, acc, joins, replies, qlog, jq, prov>>

\* the complete request up to the controller: verifyMatchParticipant loads the
\* match and requirePhase('live') passes on the loaded copy
CompleteLoad(r, k, winner) ==
  /\ jq[r].pc = "idle"
  /\ k \in 1..Len(matches)
  /\ matches[k].phase = "live"
  /\ winner \in {"alpha", "beta", "tie"}
  /\ jq' = [jq EXCEPT ![r] = [pc |-> "completing", userId |-> 0, qid |-> k,
                              mem |-> [doc |-> matches[k], winner |-> winner],
                              matchId |-> 0]]
  /\ UNCHANGED <<now, queues, inQueue, currentMatch, sessions, timers, matches, acc, joins,
                 replies, qlog, mlog, prov, stats>>

\* the controller of the request in slot r: match.completeMatch saves phase
\* and result from the loaded copy, whatever the stored phase is by then, and
\* the statistics follow
CompleteApply(r, hit) ==
  /\ jq[r].pc = "completing"
  /\ hit \in {0} \cup DOMAIN stats
  /\ LET k == jq[r].qid
         winner == jq[r].mem.winner
         res == completeMatch(jq[r].mem.doc, winner)
         failed == "error" \in DOMAIN res
     IN /\ mlog' = [op |-> "complete", k |-> k, target |-> winner, captain |-> "admin",
                    rejected |-> failed]
        /\ matches' = IF failed THEN matches
                      ELSE [matches EXCEPT ![k].phase = "complete",
                                           ![k].result.winner = winner]
        /\ IF failed THEN UNCHANGED <<currentMatch, stats>>
           ELSE CompleteFanOut(jq[r].mem.doc, winner, hit)
  /\ jq' = [jq EXCEPT ![r] = NoJoin]
  /\ UNCHANGED <<now, queues, inQueue, sessions, timers, acc, joins, replies, qlog, prov>>

\* POST /api/admin/matches/:matchId/stop
StopMatch(k) ==
  /\ k \in 1..Len(matches)
  /\ matches' = [matches EXCEPT ![k].phase = "cancelled"]
  /\ currentMatch' = [u \in DOMAIN currentMatch |-> IF currentMatch[u] = k THEN 0
                                                      ELSE currentMatch[u]]
  /\ UNCHANGED <<now, queues, inQueue, sessions, timers, acc, joins, replies, qlog, jq,
                 mlog, prov, stats>>

\* this.save() at the end of pickPlayer, for the pick of players[i] made on a
\* copy loaded as base: stored is the document in the database by then. The
\* pushes to teams and pickHistory and the $set of players.i.team, pickIndex
\* and currentPicker are sent with an increment of the version and, the push
\* to pickHistory being handled after the positional $set, without a
\* condition on it. The last pick of the draft assigns vetoOrder as a whole
\* array, which makes the update conditional on the version that was loaded.
savePick(stored, base, doc, i, captain) ==
  IF doc.phase = "veto"
  THEN IF stored.version # base.version THEN [error |-> "VersionError"] ELSE doc
  ELSE [stored EXCEPT !.teams[captain] = Append(@, base.players[i].steamId),
                      !.players[i].team = captain,
                      !.pickHistory = Append(@, doc.pickHistory[Len(doc.pickHistory)]),
                      !.pickIndex = doc.pickIndex,
                      !.currentPicker = doc.currentPicker,
                      !.version = @ + 1]

\* this.save() at the end of banMap: availableMaps is assigned as a whole
\* array, so the update is conditional on the version that was loaded
saveBan(stored, base, doc) ==
  IF stored.version # base.version THEN [error |-> "VersionError"] ELSE doc

TurnReply(op, k, target, captain, rejected) ==
  [op |-> op, k |-> k, target |-> target, captain |-> captain, rejected |-> rejected]

\* the pick request up to the save inside match.pickPlayer, for a request
\* that gets there: the match is loaded by verifyMatchParticipant,
\* requirePhase('draft') and verifyTurn pass on that copy, and pickPlayer
\* changes it in memory (the requests it rejects are those of PickRequest)
PickLoad(r, k, steamId, captain) ==
  /\ jq[r].pc = "idle"
  /\ \A r2 \in 1..(r - 1) : jq[r2].pc # "idle"
  /\ k \in 1..Len(matches)
  /\ matches[k].phase = "draft"
  /\ PickTarget(matches[k], steamId)
  /\ LET res == pickPlayer(matches[k], steamId, captain)
     IN /\ "error" \notin DOMAIN res
        /\ jq' = [jq EXCEPT ![r] = [pc |-> "picking", userId |-> steamId, qid |-> k,
                                    mem |-> [doc |-> res, base |-> matches[k],
                                             captain |-> captain],
                                    matchId |-> 0]]
        /\ UNCHANGED mlog
  /\ UNCHANGED <<now, queues, inQueue, currentMatch, sessions, timers, matches, acc, joins,
                 replies, qlog, prov, stats>>

\* the save of the pick in slot r reaches the database
PickSave(r) ==
  /\ jq[r].pc = "picking"
  /\ LET k == jq[r].qid
         base == jq[r].mem.base
         i == CHOOSE j \in 1..Len(base.players) : base.players[j].steamId = jq[r].userId
         res == savePick(matches[k], base, jq[r].mem.doc, i, jq[r].mem.captain)
     IN /\ matches' = IF "error" \in DOMAIN res THEN matches ELSE [matches EXCEPT ![k] = res]
        /\ mlog' = TurnReply("pick", k, jq[r].userId, jq[r].mem.captain, "error" \in DOMAIN res)
  /\ jq' = [jq EXCEPT ![r] = NoJoin]
  /\ UNCHANGED <<now, queues, inQueue, currentMatch, sessions, timers, acc, joins,
                 replies, qlog, prov, stats>>

\* the ban request up to the save inside match.banMap, for a request that
\* gets there (the requests banMap rejects are those of BanRequest)
BanLoad(r, k, mapName, captain) ==
  /\ jq[r].pc = "idle"
  /\ \A r2 \in 1..(r - 1) : jq[r2].pc # "idle"
  /\ k \in 1..Len(matches)
  /\ matches[k].phase = "veto"
  /\ LET res == banMap(matches[k], mapName, captain)
     IN /\ "error" \notin DOMAIN res
        /\ jq' = [jq EXCEPT ![r] = [pc |-> "banning", userId |-> 0, qid |-> k,
                                    mem |-> [doc |-> res, base |-> matches[k],
                                             captain |-> captain, target |-> mapName],
                                    matchId |-> 0]]
        /\ UNCHANGED mlog
  /\ UNCHANGED <<now, queues, inQueue, currentMatch, sessions, timers, matches, acc, joins,
                 replies, qlog, prov, stats>>

\* the save of the ban in slot r reaches the database; the request that ends
\* the veto starts provisioning
BanSave(r) ==
  /\ jq[r].pc = "banning"
  /\ LET k == jq[r].qid
         res == saveBan(matches[k], jq[r].mem.base, jq[r].mem.doc)
         failed == "error" \in DOMAIN res
     IN /\ matches' = IF failed THEN matches ELSE [matches EXCEPT ![k] = res]
        /\ mlog' = TurnReply("ban", k, jq[r].mem.target, jq[r].mem.captain, failed)
        /\ prov' = IF ~failed /\ res.phase = "ready"
                    THEN [prov EXCEPT ![k] = [state |-> "pending", by |-> "http"]]
                    ELSE prov
  /\ jq' = [jq EXCEPT ![r] = NoJoin]
  /\ UNCHANGED <<now, queues, inQueue, currentMatch, sessions, timers, acc, joins,
                 replies, qlog, stats>>

\* POST /match/:matchId/pick (requirePhase('draft'), then pickPlayer) and the
\* automatic pick of simulated captains: match.pickPlayer on a match in draft;
\* a call that throws saves nothing
PickPlayer(k, steamId, captain) ==
  /\ k \in 1..Len(matches)
  /\ matches[k].phase = "draft"
  /\ LET r == pickPlayer(matches[k], steamId, captain)
     IN matches' = IF "error" \in DOMAIN r THEN matches ELSE [matches EXCEPT ![k] = r]
  /\ UNCHANGED <<now, queues, inQueue, currentMatch, sessions, timers, acc, joins, replies,
                 qlog, jq, mlog, prov, stats>>

\* A match of ten players composed with some captain draw, all of whose
\* players accepted, at the start of its draft.
InitDraft ==
  /\ now = 0
  /\ queues = <<>>
  /\ inQueue = [u \in Users |-> FALSE]
  /\ currentMatch = [u \in Users |-> 0]
  /\ sessions = <<>>
  /\ timers = <<>>
  /\ \E captains \in CaptainPairs([i \in 1..DraftPlayers |-> i]) :
       LET m == createMatch([i \in 1..DraftPlayers |-> i], captains, 0)
       IN matches = <<endAcceptPhase([m EXCEPT !.acceptPhase.acceptedPlayers =
                                                 m.acceptPhase.requiredPlayers])>>
  /\ acc = [u \in Users |-> Idle]
  /\ joins = [u \in Users |-> 0]
  /\ replies = <<>>
  /\ qlog = [seq |-> 0, op |-> "none"]
  /\ jq = [r \in 1..MaxJoinsInFlight |-> NoJoin]
  /\ mlog = NoRequest
  /\ prov = <<>>
  /\ stats = [u \in Users |-> NewStats]

NextDraft ==
  \E k \in DocIds, steamId \in 1..DraftPlayers, captain \in {"alpha", "beta"} :
    PickPlayer(k, steamId, captain)

SpecDraft == InitDraft /\ [][NextDraft]_vars

\* The match of InitDraft with a pool of MapPool maps: its draft and its veto,
\* every call logged.
InitTurns ==
  /\ now = 0
  /\ queues = <<>>
  /\ inQueue = [u \in Users |-> FALSE]
  /\ currentMatch = [u \in Users |-> 0]
  /\ sessions = <<>>
  /\ timers = <<>>
  /\ \E captains \in CaptainPairs([i \in 1..DraftPlayers |-> i]) :
       LET m == [createMatch([i \in 1..DraftPlayers |-> i], captains, 0)
                   EXCEPT !.availableMaps = SubSeq(AvailableMaps, 1, MapPool)]
       IN matches = <<endAcceptPhase([m EXCEPT !.acceptPhase.acceptedPlayers =
                                                 m.acceptPhase.requiredPlayers])>>
  /\ acc = [u \in Users |-> Idle]
  /\ joins = [u \in Users |-> 0]
  /\ replies = <<>>
  /\ qlog = [seq |-> 0, op |-> "none"]
  /\ jq = [r \in 1..MaxJoinsInFlight |-> NoJoin]
  /\ mlog = NoRequest
  /\ prov = <<NoProv>>
  /\ stats = [u \in Users |-> NewStats]

NextTurns ==
  \/ \E k \in DocIds, steamId \in 1..(DraftPlayers + 1), captain \in {"alpha", "beta"} :
       PickRequest(k, steamId, captain)
  \/ \E k \in DocIds, mapName \in MapNames, captain \in {"alpha", "beta"} :
       BanRequest(k, mapName, captain)

SpecTurns == InitTurns /\ [][NextTurns]_vars

\* The same match with pick and ban requests that interleave.
NextTurnsRace ==
  \/ \E r \in 1..MaxJoinsInFlight, k \in DocIds, steamId \in 1..(DraftPlayers + 1),
         captain \in {"alpha", "beta"} : PickLoad(r, k, steamId, captain)
  \/ \E r \in 1..MaxJoinsInFlight : PickSave(r)
  \/ \E r \in 1..MaxJoinsInFlight, k \in DocIds, mapName \in MapNames,
         captain \in {"alpha", "beta"} : BanLoad(r, k, mapName, captain)
  \/ \E r \in 1..MaxJoinsInFlight : BanSave(r)

RECURSIVE DraftUntil(_, _)
DraftUntil(m, left) ==
  IF m.phase # "draft" \/ Len(m.pickOrder) - m.pickIndex <= left THEN m
  ELSE DraftUntil(pickPlayer(m, m.players[Min(Undrafted(m))].steamId, m.currentPicker), left)

\* A match in draft with MaxPicksLeft picks to go
InitTurnsRace ==
  /\ now = 0
  /\ queues = <<>>
  /\ inQueue = [u \in Users |-> FALSE]
  /\ currentMatch = [u \in Users |-> 0]
  /\ sessions = <<>>
  /\ timers = <<>>
  /\ \E captains \in CaptainPairs([i \in 1..DraftPlayers |-> i]) :
       LET m == [createMatch([i \in 1..DraftPlayers |-> i], captains, 0)
                   EXCEPT !.availableMaps = SubSeq(AvailableMaps, 1, MapPool)]
       IN matches = <<DraftUntil(endAcceptPhase([m EXCEPT !.acceptPhase.acceptedPlayers =
                                                            m.acceptPhase.requiredPlayers]),
                                 MaxPicksLeft)>>
  /\ acc = [u \in Users |-> Idle]
  /\ joins = [u \in Users |-> 0]
  /\ replies = <<>>
  /\ qlog = NoRequest
  /\ jq = [r \in 1..MaxJoinsInFlight |-> NoJoin]
  /\ mlog = NoRequest
  /\ prov = <<NoProv>>
  /\ stats = [u \in {} |-> NewStats]

SpecTurnsRace == InitTurnsRace /\ [][NextTurnsRace]_vars

\* matchSchema.methods.acceptMatch at time t: the in-memory document it goes on
\* to save, or the error it throws
acceptMatch(m, steamId, t) ==
  IF ~m.acceptPhase.active THEN [error |-> "Accept phase is not active"]
  ELSE IF t > m.acceptPhase.expiresAt THEN [error |-> "Accept phase has expired"]
  ELSE IF steamId \notin SeqToSet(m.acceptPhase.requiredPlayers)
  THEN [error |-> "Player is not part of this match"]
  ELSE IF steamId \in SeqToSet(m.acceptPhase.acceptedPlayers)
  THEN [error |-> "Player already accepted"]
  ELSE [m EXCEPT !.acceptPhase.acceptedPlayers = Append(@, steamId)]

\* matchSchema.methods.allPlayersAccepted
allPlayersAccepted(m) ==
  Len(m.acceptPhase.acceptedPlayers) >= Len(m.acceptPhase.requiredPlayers)

AcceptReply(u, k, error) ==
  [op |-> "accept", k |-> k, user |-> u, rejected |-> error # "", error |-> error]

\* POST /api/match/:matchId/accept up to the save inside match.acceptMatch: the
\* match is loaded and checked, and the accept is pushed on the loaded copy.
\* A request that fails a check is answered here.
MatchAcceptLoad(r, u, k) ==
  /\ jq[r].pc = "idle"
  /\ k \in 1..(Len(matches) + 1)
  /\ IF k > Len(matches)
     THEN mlog' = AcceptReply(u, k, "Match not found") /\ UNCHANGED jq
     ELSE IF matches[k].phase # "accept"
     THEN mlog' = AcceptReply(u, k, "Match is not in accept phase") /\ UNCHANGED jq
     ELSE LET a == acceptMatch(matches[k], u, now)
          IN IF "error" \in DOMAIN a
             THEN mlog' = AcceptReply(u, k, a.error) /\ UNCHANGED jq
             ELSE /\ jq' = [jq EXCEPT ![r] = [pc |-> "accepting", userId |-> u, qid |-> k,
                                              mem |-> a, matchId |-> 0]]
                  /\ UNCHANGED mlog
  /\ UNCHANGED <<now, queues, inQueue, currentMatch, sessions, timers, matches, acc, joins,
                 replies, qlog, prov, stats>>

\* the rest of the request: the save of acceptMatch appends the accept to the
\* stored array ($push), and if the loaded copy now holds as many accepts as
\* required players, endAcceptPhase saves active = false and the phase
MatchAcceptSave(r) ==
  /\ jq[r].pc = "accepting"
  /\ LET k == jq[r].qid
         pushed == [matches[k] EXCEPT !.acceptPhase.acceptedPlayers = Append(@, jq[r].userId),
                                      !.version = @ + 1]
         ended == endAcceptPhase(jq[r].mem)
     IN matches' = [matches EXCEPT ![k] =
                      IF allPlayersAccepted(jq[r].mem)
                      THEN [pushed EXCEPT !.acceptPhase.active = FALSE, !.phase = ended.phase]
                      ELSE pushed]
  /\ mlog' = AcceptReply(jq[r].userId, jq[r].qid, "")
  /\ jq' = [jq EXCEPT ![r] = NoJoin]
  /\ UNCHANGED <<now, queues, inQueue, currentMatch, sessions, timers, acc, joins,
                 replies, qlog, prov, stats>>

\* the loop of processAcceptTimeout over the acceptors: each one not in the
\* pool is added by addPlayer(player, true), whose second argument addPlayer
\* does not take, and flagged inQueue; 'Queue is full' thrown by addPlayer
\* ends the loop
RECURSIVE RequeueAcceptors(_, _)
RequeueAcceptors(st, ids) ==
  IF ids = <<>> THEN st
  ELSE IF InPool(st.q, Head(ids)) THEN RequeueAcceptors(st, Tail(ids))
  ELSE IF isFull(st.q) THEN st
  ELSE RequeueAcceptors([q |-> addPlayer(st.q, Head(ids)),
                         added |-> st.added \cup {Head(ids)}], Tail(ids))

\* processAcceptTimeout, run by the setTimeout set at match creation
ProcessAcceptTimeout(k) ==
  /\ k \in 1..Len(matches)
  /\ k \in 1..Len(timers)
  /\ timers[k].state = "armed"
  /\ now >= timers[k].due
  /\ timers' = [timers EXCEPT ![k].state = "done"]
  /\ LET m == matches[k]
     IN IF ~m.acceptPhase.active
        THEN UNCHANGED <<matches, queues, inQueue, currentMatch>>
        ELSE IF allPlayersAccepted(m)
        THEN /\ matches' = [matches EXCEPT ![k] = endAcceptPhase(m)]
             /\ UNCHANGED <<queues, inQueue, currentMatch>>
        ELSE LET IsAcceptor(p) == p \in SeqToSet(m.acceptPhase.acceptedPlayers)
                 acceptors == SelectSeq(m.acceptPhase.requiredPlayers, IsAcceptor)
                 g == getActiveQueue(queues)
                 st == RequeueAcceptors([q |-> g.qs[g.id], added |-> {}], acceptors)
             IN /\ matches' = [matches EXCEPT ![k] = endAcceptPhase(m)]
                /\ currentMatch' = [u \in DOMAIN currentMatch |->
                                      IF u \in SeqToSet(m.acceptPhase.requiredPlayers)
                                      THEN 0 ELSE currentMatch[u]]
                /\ queues' = [g.qs EXCEPT ![g.id] = st.q]
                /\ inQueue' = [u \in DOMAIN inQueue |-> IF u \in st.added THEN TRUE
                                                        ELSE inQueue[u]]
  /\ UNCHANGED <<now, sessions, acc, joins, replies, qlog, jq, mlog, prov, stats>>

\* the clock of a match in its accept phase
TickMatch ==
  /\ now + TickSeconds <= MaxMatchTime
  /\ now' = now + TickSeconds
  /\ UNCHANGED <<queues, inQueue, currentMatch, sessions, timers, matches, acc, joins,
                 replies, qlog, jq, mlog, prov, stats>>

\* A match just created for the first RequiredPlayers users, its accept timer
\* set (timers is indexed by match here), while the other users wait in the
\* pool or stay out of it.
InitAccept ==
  /\ now = 0
  /\ \E n \in 0..ExtraUsers :
       LET waiting == [i \in 1..n |-> RequiredPlayers + i]
       IN /\ queues = IF n = 0 THEN <<>>
                      ELSE <<[NewQueue EXCEPT !.requiredPlayers = SchemaRequiredPlayers,
                                !.players = [i \in 1..n |->
                                  [steamId |-> waiting[i], position |-> i,
                                   hasPriority |-> FALSE]]]>>
          /\ inQueue = [u \in Users |-> u \in SeqToSet(waiting)]
  /\ currentMatch = [u \in Users |-> IF u <= RequiredPlayers THEN 1 ELSE 0]
  /\ sessions = <<>>
  /\ matches = <<createMatch([i \in 1..RequiredPlayers |-> i], <<1, 2>>, 0)>>
  /\ timers = <<[state |-> "armed", due |-> MatchAcceptTimeoutMs \div 1000, result |-> NoDoc]>>
  /\ acc = [u \in Users |-> Idle]
  /\ joins = [u \in Users |-> 0]
  /\ replies = <<>>
  /\ qlog = [seq |-> 0, op |-> "none"]
  /\ jq = [r \in 1..MaxJoinsInFlight |-> NoJoin]
  /\ mlog = NoRequest
  /\ prov = <<NoProv>>
  /\ stats = [u \in Users |-> NewStats]

NextAccept ==
  \/ \E r \in 1..MaxJoinsInFlight, u \in Users, k \in DocIds : MatchAcceptLoad(r, u, k)
  \/ \E r \in 1..MaxJoinsInFlight : MatchAcceptSave(r)
  \/ \E k \in DocIds : ProcessAcceptTimeout(k)
  \/ TickMatch

SpecAccept == InitAccept /\ [][NextAccept]_vars

\* processAcceptTimeout up to its first write: the match is read by
\* Match.findOne and the run ends there if its accept phase is over
TimeoutLoad(k) ==
  /\ k \in 1..Len(matches)
  /\ k \in 1..Len(timers)
  /\ timers[k].state = "armed"
  /\ now >= timers[k].due
  /\ timers' = [timers EXCEPT ![k] = IF matches[k].acceptPhase.active
                                      THEN [@ EXCEPT !.state = "loaded", !.result = matches[k]]
                                      ELSE [@ EXCEPT !.state = "done"]]
  /\ UNCHANGED <<now, queues, inQueue, currentMatch, sessions, matches, acc, joins,
                 replies, qlog, jq, mlog, prov, stats>>

\* the rest of processAcceptTimeout, on the copy m it read: endAcceptPhase
\* saves active = false and the phase computed from m's accepts over the
\* stored document, and for a match it cancels the participants are released
\* and m's acceptors are put back in the pool
TimeoutWrite(k) ==
  /\ k \in 1..Len(timers)
  /\ timers[k].state = "loaded"
  /\ timers' = [timers EXCEPT ![k] = [@ EXCEPT !.state = "done", !.result = NoDoc]]
  /\ LET m == timers[k].result
         ended == endAcceptPhase(m)
         written == [matches EXCEPT ![k].acceptPhase.active = FALSE, ![k].phase = ended.phase]
     IN IF allPlayersAccepted(m)
        THEN /\ matches' = written
             /\ UNCHANGED <<queues, inQueue, currentMatch>>
        ELSE LET IsAcceptor(p) == p \in SeqToSet(m.acceptPhase.acceptedPlayers)
                 acceptors == SelectSeq(m.acceptPhase.requiredPlayers, IsAcceptor)
                 g == getActiveQueue(queues)
                 st == RequeueAcceptors([q |-> g.qs[g.id], added |-> {}], acceptors)
             IN /\ matches' = written
                /\ currentMatch' = [u \in DOMAIN currentMatch |->
                                      IF u \in SeqToSet(m.acceptPhase.requiredPlayers)
                                      THEN 0 ELSE currentMatch[u]]
                /\ queues' = [g.qs EXCEPT ![g.id] = st.q]
                /\ inQueue' = [u \in DOMAIN inQueue |-> IF u \in st.added THEN TRUE
                                                        ELSE inQueue[u]]
  /\ UNCHANGED <<now, sessions, acc, joins, replies, qlog, jq, mlog, prov, stats>>

\* The accept phase with the run of the deadline timer interleaving with the
\* accept requests.
NextAcceptRace ==
  \/ \E r \in 1..MaxJoinsInFlight, u \in Users, k \in DocIds : MatchAcceptLoad(r, u, k)
  \/ \E r \in 1..MaxJoinsInFlight : MatchAcceptSave(r)
  \/ \E k \in DocIds : TimeoutLoad(k)
  \/ \E k \in DocIds : TimeoutWrite(k)
  \/ TickMatch

SpecAcceptRace == InitAccept /\ [][NextAcceptRace]_vars

\* the loop of createMatchFromQueue over the test players: match.acceptMatch
\* for each, an error being caught and logged
RECURSIVE AutoAccept(_, _, _)
AutoAccept(m, ids, t) ==
  IF ids = <<>> THEN m
  ELSE LET a == acceptMatch(m, Head(ids), t)
       IN AutoAccept(IF "error" \in DOMAIN a THEN m ELSE [a EXCEPT !.version = @ + 1],
                     Tail(ids), t)

\* createMatchFromQueue(queue, io) for pool qid with featureFlags.skipAcceptPhase
\* = skip, tests being the players whose steamId starts with 'test-': the match
\* is created in accept, its players are bound to it, the test players are
\* accepted, and the accept phase is ended at once (skip) or its timer is set
CreateMatchFromQueue(qid, captains, skip, tests) ==
  /\ matches = <<>>
  /\ qid \in 1..Len(queues)
  /\ Len(queues[qid].players) >= 2
  /\ LET playerIds == SteamIds(queues[qid].players)
         IsTest(p) == p \in tests
         k == Len(matches) + 1
         m0 == createMatch(playerIds, captains, 0)
         m1 == AutoAccept(m0, SelectSeq(playerIds, IsTest), now)
         m2 == IF tests # {} /\ allPlayersAccepted(m1) THEN endAcceptPhase(m1) ELSE m1
     IN /\ captains \in CaptainPairs(playerIds)
        /\ tests \subseteq SeqToSet(playerIds)
        /\ matches' = Append(matches, IF skip THEN endAcceptPhase(m2) ELSE m2)
        /\ timers' = Append(timers,
                            IF skip THEN NoTimer
                            ELSE [state |-> "armed",
                                  due |-> now + (MatchAcceptTimeoutMs \div 1000),
                                  result |-> NoDoc])
        /\ currentMatch' = [u \in DOMAIN currentMatch |->
                              IF u \in SeqToSet(playerIds) THEN k ELSE currentMatch[u]]
        /\ inQueue' = [u \in DOMAIN inQueue |->
                         IF u \in SeqToSet(playerIds) THEN FALSE ELSE inQueue[u]]
        /\ prov' = Append(prov, NoProv)
        /\ mlog' = [op |-> "createMatchFromQueue", k |-> k, skip |-> skip,
                    accepted |-> Len(m1.acceptPhase.acceptedPlayers)]
  /\ UNCHANGED <<now, queues, sessions, acc, joins, replies, qlog, jq, stats>>

\* A pool whose players all accepted, taken over by the accept route, which
\* calls createMatchFromQueue; then the accept phase of the match.
InitSkip ==
  /\ now = 0
  /\ queues = <<[NewQueue EXCEPT !.status = "processing",
                   !.players = [i \in 1..RequiredPlayers |->
                     [steamId |-> i, position |-> i, hasPriority |-> TRUE]]]>>
  /\ inQueue = [u \in Users |-> u <= RequiredPlayers]
  /\ currentMatch = [u \in Users |-> 0]
  /\ sessions = <<>>
  /\ matches = <<>>
  /\ timers = <<>>
  /\ acc = [u \in Users |-> Idle]
  /\ joins = [u \in Users |-> 0]
  /\ replies = <<>>
  /\ qlog = [seq |-> 0, op |-> "none"]
  /\ jq = [r \in 1..MaxJoinsInFlight |-> NoJoin]
  /\ mlog = NoRequest
  /\ prov = <<>>
  /\ stats = [u \in Users |-> NewStats]

NextSkip ==
  \/ \E qid \in DocIds, captains \in Users \X Users, skip \in BOOLEAN, tests \in SUBSET Users :
       CreateMatchFromQueue(qid, <<captains[1], captains[2]>>, skip, tests)
  \/ NextAccept

SpecSkip == InitSkip /\ [][NextSkip]_vars

\* user.updateStats(won) as completeMatch calls it for a user it found, logged
\* with the rating the user had
UpdateStats(u, won) ==
  /\ u \in DOMAIN stats
  /\ stats[u].matchesPlayed < MaxResults
  /\ stats' = [stats EXCEPT ![u] = updateStats(stats[u], won)]
  /\ mlog' = [op |-> "updateStats", user |-> u, won |-> won, before |-> stats[u].rating]
  /\ UNCHANGED <<now, queues, inQueue, currentMatch, sessions, timers, matches, acc, joins,
                 replies, qlog, jq, prov>>

\* One user with a rating from 0 to MaxLowRating or the default rating, and
\* the results applied to that user.
InitRating ==
  /\ now = 0
  /\ queues = <<>>
  /\ inQueue = [u \in Users |-> FALSE]
  /\ currentMatch = [u \in Users |-> 0]
  /\ sessions = <<>>
  /\ timers = <<>>
  /\ matches = <<>>
  /\ acc = [u \in Users |-> Idle]
  /\ joins = [u \in Users |-> 0]
  /\ replies = <<>>
  /\ qlog = [seq |-> 0, op |-> "none"]
  /\ jq = [r \in 1..MaxJoinsInFlight |-> NoJoin]
  /\ mlog = NoRequest
  /\ prov = <<>>
  /\ \E r \in (0..MaxLowRating) \cup {StartRating} :
       stats = [u \in {1} |-> [NewStats EXCEPT !.rating = r]]

NextRating == \E u \in {1}, won \in BOOLEAN : UpdateStats(u, won)

SpecRating == InitRating /\ [][NextRating]_vars

\* The users of a match's life: its ten participants and one more user.
LifeUsers == 1..(DraftPlayers + 1)

\* the draft of m played to its end, every pick taking the first undrafted player
RECURSIVE DraftAll(_)
DraftAll(m) ==
  IF m.phase # "draft" THEN m
  ELSE DraftAll(pickPlayer(m, m.players[Min(Undrafted(m))].steamId, m.currentPicker))

\* A drafted match at the start of its veto over a pool of MapPool maps, its
\* participants bound to it: bans by request and by the automatic ban,
\* provisioning, completion, and the admin stop.
InitLife ==
  /\ now = 0
  /\ queues = <<>>
  /\ inQueue = [u \in Users |-> FALSE]
  /\ currentMatch = [u \in LifeUsers |-> IF u <= DraftPlayers THEN 1 ELSE 0]
  /\ sessions = <<>>
  /\ timers = <<>>
  /\ \E captains \in CaptainPairs([i \in 1..DraftPlayers |-> i]) :
       LET m == [createMatch([i \in 1..DraftPlayers |-> i], captains, 0)
                   EXCEPT !.availableMaps = SubSeq(AvailableMaps, 1, MapPool)]
       IN matches = <<DraftAll(endAcceptPhase([m EXCEPT !.acceptPhase.acceptedPlayers =
                                                          m.acceptPhase.requiredPlayers]))>>
  /\ acc = [u \in Users |-> Idle]
  /\ joins = [u \in Users |-> 0]
  /\ replies = <<>>
  /\ qlog = [seq |-> 0, op |-> "none"]
  /\ jq = [r \in 1..MaxJoinsInFlight |-> NoJoin]
  /\ mlog = NoRequest
  /\ prov = <<NoProv>>
  /\ stats = [u \in LifeUsers |-> NewStats]

NextLife ==
  \/ \E k \in DocIds, mapName \in MapNames, captain \in {"alpha", "beta"} :
       BanRequest(k, mapName, captain)
  \/ \E k \in DocIds, mapName \in MapNames : AutoBan(k, mapName)
  \/ \E k \in DocIds, success \in BOOLEAN : ProvisionDone(k, success)
  \/ \E k \in DocIds, winner \in {"alpha", "beta", "tie", "draw"}, hit \in {0} \cup LifeUsers :
       CompleteMatch(k, winner, hit)
  \/ \E k \in DocIds : StopMatch(k)

SpecLife == InitLife /\ [][NextLife]_vars

\* queueSchema.methods.startAcceptPhase
startAcceptPhase(q) ==
  [q EXCEPT !.status = "accept_phase",
            !.acceptPhase = [active |-> TRUE, acceptedPlayers |-> <<>>,
                             declinedPlayers |-> <<>>]]

\* queueSchema.methods.acceptMatch: the pool it saves, or the error it throws
queueAcceptMatch(q, steamId) ==
  IF ~InPool(q, steamId) THEN [error |-> "Player not in queue"]
  ELSE IF ~q.acceptPhase.active THEN [error |-> "Accept phase is not active"]
  ELSE IF steamId \in SeqToSet(q.acceptPhase.acceptedPlayers)
  THEN [error |-> "Player already accepted"]
  ELSE IF steamId \in SeqToSet(q.acceptPhase.declinedPlayers)
  THEN [error |-> "Player already declined"]
  ELSE [q EXCEPT !.acceptPhase.acceptedPlayers = Append(@, steamId)]

\* queueSchema.methods.declineMatch: the pool it saves, or the error it throws
declineMatch(q, steamId) ==
  IF ~InPool(q, steamId) THEN [error |-> "Player not in queue"]
  ELSE IF ~q.acceptPhase.active THEN [error |-> "Accept phase is not active"]
  ELSE IF steamId \in SeqToSet(q.acceptPhase.declinedPlayers) THEN q
  ELSE [q EXCEPT !.acceptPhase.declinedPlayers = Append(@, steamId)]

PoolReply(op, qid, u, res) ==
  [op |-> op, qid |-> qid, user |-> u,
   rejected |-> "error" \in DOMAIN res,
   error |-> IF "error" \in DOMAIN res THEN res.error ELSE ""]

\* queue.startAcceptPhase() on a pool that is not in its accept phase
StartAcceptPhase(qid) ==
  /\ qid \in 1..Len(queues)
  /\ ~queues[qid].acceptPhase.active
  /\ queues' = [queues EXCEPT ![qid] = startAcceptPhase(@)]
  /\ mlog' = [op |-> "startAcceptPhase", qid |-> qid]
  /\ UNCHANGED <<now, inQueue, currentMatch, sessions, timers, matches, acc, joins,
                 replies, qlog, jq, prov, stats>>

\* queue.acceptMatch(steamId) called on pool qid
QueueAcceptMatch(qid, u) ==
  /\ qid \in 1..Len(queues)
  /\ LET res == queueAcceptMatch(queues[qid], u)
     IN /\ queues' = IF "error" \in DOMAIN res THEN queues ELSE [queues EXCEPT ![qid] = res]
        /\ mlog' = PoolReply("accept", qid, u, res)
  /\ UNCHANGED <<now, inQueue, currentMatch, sessions, timers, matches, acc, joins,
                 replies, qlog, jq, prov, stats>>

\* queue.declineMatch(steamId) called on pool qid
DeclineMatch(qid, u) ==
  /\ qid \in 1..Len(queues)
  /\ LET res == declineMatch(queues[qid], u)
     IN /\ queues' = IF "error" \in DOMAIN res THEN queues ELSE [queues EXCEPT ![qid] = res]
        /\ mlog' = PoolReply("decline", qid, u, res)
  /\ UNCHANGED <<now, inQueue, currentMatch, sessions, timers, matches, acc, joins,
                 replies, qlog, jq, prov, stats>>

\* A pool holding the first n users, its accept phase not started (the schema
\* defaults of acceptPhase), and the calls of the accept-phase methods on it.
InitPoolAccept ==
  /\ now = 0
  /\ \E n \in 1..NumUsers :
       /\ queues = <<[players |-> [i \in 1..n |-> [steamId |-> i, position |-> i,
                                                   hasPriority |-> FALSE]],
                      status |-> IF n >= SchemaRequiredPlayers THEN "full" ELSE "waiting",
                      requiredPlayers |-> SchemaRequiredPlayers,
                      acceptPhase |-> [active |-> FALSE, acceptedPlayers |-> <<>>,
                                       declinedPlayers |-> <<>>]]>>
       /\ inQueue = [u \in Users |-> u <= n]
  /\ currentMatch = [u \in Users |-> 0]
  /\ sessions = <<>>
  /\ matches = <<>>
  /\ timers = <<>>
  /\ acc = [u \in Users |-> Idle]
  /\ joins = [u \in Users |-> 0]
  /\ replies = <<>>
  /\ qlog = [seq |-> 0, op |-> "none"]
  /\ jq = [r \in 1..MaxJoinsInFlight |-> NoJoin]
  /\ mlog = NoRequest
  /\ prov = <<>>
  /\ stats = [u \in Users |-> NewStats]

NextPoolAccept ==
  \/ \E qid \in DocIds : StartAcceptPhase(qid)
  \/ \E qid \in DocIds, u \in Users : QueueAcceptMatch(qid, u)
  \/ \E qid \in DocIds, u \in Users : DeclineMatch(qid, u)

SpecPoolAccept == InitPoolAccept /\ [][NextPoolAccept]_vars

\* The veto of that match and what follows it up to live, with the admin stop.
NextVeto ==
  \/ \E k \in DocIds, mapName \in MapNames, captain \in {"alpha", "beta"} :
       BanRequest(k, mapName, captain)
  \/ \E k \in DocIds, mapName \in MapNames : AutoBan(k, mapName)
  \/ \E k \in DocIds, success \in BOOLEAN : ProvisionDone(k, success)
  \/ \E k \in DocIds : StopMatch(k)

SpecVeto == InitLife /\ [][NextVeto]_vars

\* the veto of m played to its end, every ban taking the first available map
RECURSIVE VetoAll(_)
VetoAll(m) ==
  IF m.phase # "veto" THEN m ELSE VetoAll(banMap(m, m.availableMaps[1], m.currentVeto))

\* A live match, its participants bound to it, and complete requests that
\* interleave.
InitComplete ==
  /\ now = 0
  /\ queues = <<>>
  /\ inQueue = [u \in Users |-> FALSE]
  /\ currentMatch = [u \in LifeUsers |-> IF u <= DraftPlayers THEN 1 ELSE 0]
  /\ sessions = <<>>
  /\ timers = <<>>
  /\ \E captains \in CaptainPairs([i \in 1..DraftPlayers |-> i]) :
       LET m == [createMatch([i \in 1..DraftPlayers |-> i], captains, 0)
                   EXCEPT !.availableMaps = SubSeq(AvailableMaps, 1, MapPool)]
           v == VetoAll(DraftAll(endAcceptPhase([m EXCEPT !.acceptPhase.acceptedPlayers =
                                                            m.acceptPhase.requiredPlayers])))
       IN matches = <<[v EXCEPT !.phase = "live", !.serverInfo = ServerInfo]>>
  /\ acc = [u \in Users |-> Idle]
  /\ joins = [u \in Users |-> 0]
  /\ replies = <<>>
  /\ qlog = [seq |-> 0, op |-> "none"]
  /\ jq = [r \in 1..MaxJoinsInFlight |-> NoJoin]
  /\ mlog = NoRequest
  /\ prov = <<[state |-> "done", by |-> "http"]>>
  /\ stats = [u \in LifeUsers |-> NewStats]

NextComplete ==
  \/ \E r \in 1..MaxJoinsInFlight, k \in DocIds, winner \in {"alpha", "beta", "tie"} :
       CompleteLoad(r, k, winner)
  \/ \E r \in 1..MaxJoinsInFlight, hit \in {0} \cup LifeUsers : CompleteApply(r, hit)

SpecComplete == InitComplete /\ [][NextComplete]_vars

\* Scheduling of the program as it is wired: the clock advances, the TTL
\* monitor of the database runs and a request handler that has started runs to
\* its end; nobody is obliged to send requests.
FairSpec ==
  /\ Spec
  /\ WF_vars(Tick)
  /\ WF_vars(\E mid \in DocIds : TtlExpire(mid))
  /\ \A u \in Users :
       WF_vars(AcceptSave(u) \/ AcceptCheck(u) \/ AcceptComplete(u) \/ AcceptCreate(u))

\* The ready coordinator driven through the socket layer: startReadyPhaseMatch
\* is called for the roster of a pool that filled, the players answer that
\* session, its deadline timer runs and the session may be cancelled.
TickCoord == TickWhen(TimedSessions # {})

\* an accept request addressed to a session of the socket layer
AcceptFindTimed(u, mid) == mid \in TimedSessions /\ AcceptFind(u, mid)

\* the TTL removal of a session of the socket layer
TtlExpireTimed(mid) == mid \in TimedSessions /\ TtlExpire(mid)

NextCoord ==
  \/ \E u \in Users : JoinQueue(u)
  \/ \E qid \in DocIds : StartReadyPhaseMatch(qid)
  \/ \E u \in Users, mid \in DocIds : AcceptFindTimed(u, mid)
  \/ \E u \in Users : AcceptSave(u)
  \/ \E u \in Users : AcceptCheck(u)
  \/ \E u \in Users : AcceptComplete(u)
  \/ \E u \in Users : AcceptCreate(u)
  \/ \E mid \in DocIds : TimerFire(mid)
  \/ \E mid \in DocIds : TimeoutCallback(mid)
  \/ \E mid \in DocIds : CancelReadySession(mid)
  \/ \E mid \in DocIds : TtlExpireTimed(mid)
  \/ TickCoord

SpecCoord == Init /\ [][NextCoord]_vars


\* ------------------------------------------------------------- properties
\* the Match documents composed from ready session mid
MatchesOf(mid) == {k \in 1..Len(matches) : matches[k].readyMatchId = mid}

\* C1: under every interleaving of the accept requests of a session's roster,
\* at most one Match document is composed for that ready session.
C1_AtMostOneMatchPerSession ==
  \A mid \in 1..Len(sessions) : Cardinality(MatchesOf(mid)) <= 1

\* C2: the Match composed once the whole roster of a filled queue has accepted
\* is in phase draft, with pickOrder alpha, alpha, beta, beta, alpha, beta,
\* alpha, beta and currentPicker alpha.
C2_MatchCreatedInDraft ==
  \A k \in 1..Len(matches) :
    /\ matches[k].phase = "draft"
    /\ matches[k].pickOrder =
         <<"alpha", "alpha", "beta", "beta", "alpha", "beta", "alpha", "beta">>
    /\ matches[k].currentPicker = "alpha"

\* session.players.every(p => p.accepted), and its counterpart some()
AllAccepted(sess) == \A i \in 1..Len(sess.players) : sess.players[i].accepted
SomeAccepted(sess) == \E i \in 1..Len(sess.players) : sess.players[i].accepted

\* C3: a ready session is completed only when every roster player accepted
\* before expiresAt (every flag true, and recorded no later than expiresAt);
\* any other session ends in timeout.
C3_CompletedOnlyByTimelyAccepts ==
  \A mid \in 1..Len(sessions) :
    sessions[mid].status = "completed" =>
      \A i \in 1..Len(sessions[mid].players) :
        /\ sessions[mid].players[i].accepted
        /\ sessions[mid].players[i].acceptedAt <= sessions[mid].expiresAt

\* C4: whenever handleReadyTimeout has moved a session to timeout, the
\* acceptors and nonAcceptors it returned are disjoint and together are exactly
\* the roster of the session, each roster player once.
C4_TimeoutPartitionsRoster ==
  \A mid \in 1..Len(sessions) :
    timers[mid].result # NoDoc =>
      LET r == timers[mid].result
          roster == SeqToSet(UserIds(sessions[mid].players))
      IN /\ sessions[mid].status = "timeout"
         /\ SeqToSet(r.acceptors) \cap SeqToSet(r.nonAcceptors) = {}
         /\ SeqToSet(r.acceptors) \cup SeqToSet(r.nonAcceptors) = roster
         /\ Len(r.acceptors) + Len(r.nonAcceptors) = Len(sessions[mid].players)
         /\ Cardinality(roster) = Len(sessions[mid].players)

\* a timeout that split the roster into a non-empty and a non-empty part
C4_Witness ==
  \E mid \in 1..Len(sessions) :
    /\ timers[mid].result # NoDoc
    /\ timers[mid].result.acceptors # <<>>
    /\ timers[mid].result.nonAcceptors # <<>>

\* C5: every ready session has a deadline check scheduled for its expiresAt.
C5_EverySessionHasDeadlineCheck ==
  \A mid \in 1..Len(sessions) :
    /\ timers[mid].state # "none"
    /\ timers[mid].due = sessions[mid].expiresAt

\* a step in which the deadline check of a session that is not active runs
\* changes no session, no queue and no user, and leaves no result for a callback
C6_DeadlineNoOpStep ==
  \A mid \in 1..Len(sessions) :
    (/\ timers[mid].state = "armed"
     /\ timers'[mid].state # "armed"
     /\ sessions[mid].status # "active")
    => /\ sessions' = sessions
       /\ queues' = queues
       /\ inQueue' = inQueue
       /\ timers'[mid].state = "done"
       /\ timers'[mid].result = NoDoc

\* of completion and timeout at most one has changed the status
C6_OneWinner ==
  \A mid \in 1..Len(sessions) :
    /\ sessions[mid].status = "completed" => timers[mid].result = NoDoc
    /\ timers[mid].result # NoDoc => sessions[mid].status = "timeout"
    /\ timers[mid].state = "callback" => timers[mid].result # NoDoc

\* C6: a deadline check that runs on a session that is no longer active changes
\* neither a session nor a queue nor a user, and enters no callback; a session
\* completed by the accept path has no timeout result, and a timeout result or
\* a pending callback only exists for a session in status timeout.
C6_DeadlineIdempotent == []C6_OneWinner /\ [][C6_DeadlineNoOpStep]_vars

\* the deadline check ran after the accept path had completed the session
C6_Witness ==
  \E mid \in 1..Len(sessions) :
    /\ sessions[mid].status = "completed"
    /\ timers[mid].state = "done"

\* the deadline of a session has come with some of its roster accepted
AtDeadlinePartlyAccepted(mid) ==
  /\ mid \in 1..Len(sessions)
  /\ sessions[mid].status = "active"
  /\ now >= sessions[mid].expiresAt
  /\ SomeAccepted(sessions[mid])
  /\ ~AllAccepted(sessions[mid])

\* the timeout of a session has been resolved on its pool
TimeoutResolved(mid) ==
  /\ mid \in 1..Len(sessions)
  /\ sessions[mid].status = "timeout"
  /\ LET q == queues[sessions[mid].queueGroupId]
         roster == UserIds(sessions[mid].players)
         Pos(u) == CHOOSE k \in 1..Len(q.players) : q.players[k].steamId = u
     IN \A i \in 1..Len(roster) :
          IF sessions[mid].players[i].accepted
          THEN /\ Cardinality({k \in 1..Len(q.players) : q.players[k].steamId = roster[i]}) = 1
               /\ q.players[Pos(roster[i])].hasPriority
               /\ \A k \in 1..Len(q.players) :
                    q.players[k].steamId \notin SeqToSet(roster) => Pos(roster[i]) < k
               /\ \A j \in 1..(i - 1) :
                    sessions[mid].players[j].accepted => Pos(roster[j]) < Pos(roster[i])
          ELSE /\ ~InPool(q, roster[i])
               /\ ~inQueue[roster[i]]

\* C7: a ready session that reaches its deadline with part of its roster
\* accepted (7 of 10) becomes timeout; its acceptors are then in the queue once
\* each, with hasPriority, in their original order and ahead of every player
\* that is not of the roster, and its non-acceptors have inQueue = false and
\* are not in the queue.
C7_PartialAcceptTimesOut ==
  \A mid \in DocIds : AtDeadlinePartlyAccepted(mid) ~> TimeoutResolved(mid)

\* a step keeps the status of every session that is not active
C8_StatusStep ==
  \A mid \in 1..Len(sessions) :
    /\ sessions[mid].status \in {"active", "completed", "timeout", "cancelled"}
    /\ sessions[mid].status # "active" => sessions'[mid].status = sessions[mid].status

\* C8: the status of a ready session is active, completed, timeout or
\* cancelled, and once it is not active no step changes it.
C8_StatusOneShot == [][C8_StatusStep]_vars

\* completeReadyPhase and the deadline check have both run on a session that
\* was cancelled before
C8_Witness ==
  \E mid \in 1..Len(sessions) : \E u \in Users :
    /\ sessions[mid].status = "cancelled"
    /\ acc[u].pc = "completing"
    /\ acc[u].mid = mid
    /\ timers[mid].state = "done"

\* a step keeps the roster of every session and every accepted flag that is true
C10_RosterStep ==
  \A mid \in 1..Len(sessions) :
    /\ UserIds(sessions'[mid].players) = UserIds(sessions[mid].players)
    /\ \A i \in 1..Len(sessions[mid].players) :
         sessions[mid].players[i].accepted => sessions'[mid].players[i].accepted

\* the accept of a request that got past its save is in the stored session
C10_NoAcceptLost ==
  \A u \in Users :
    acc[u].pc \in {"recorded", "checked", "completing"} =>
      /\ PlayerIndex(sessions[acc[u].mid], u) # 0
      /\ sessions[acc[u].mid].players[PlayerIndex(sessions[acc[u].mid], u)].accepted

\* C10: the roster of a ready session never changes, an accepted flag that is
\* true stays true, and the accept of every request that got past its save is
\* in the stored session, however the requests interleave.
C10_RosterFixedAcceptsMonotonic == []C10_NoAcceptLost /\ [][C10_RosterStep]_vars

\* two requests saved from snapshots that each miss the other's accept
C10_Witness ==
  \E u, v \in Users :
    /\ u # v
    /\ acc[u].pc = "recorded" /\ acc[v].pc = "recorded"
    /\ acc[u].mid = acc[v].mid
    /\ LET sess == sessions[acc[u].mid]
       IN /\ ~acc[u].res.stats.players[PlayerIndex(sess, v)].accepted
          /\ ~acc[v].res.stats.players[PlayerIndex(sess, u)].accepted

\* the last two requests served were accepts of the same player on the same
\* session, the first succeeded and the session is still active
AcceptedTwice ==
  /\ Len(replies) = 2
  /\ replies[1].userId = replies[2].userId
  /\ replies[1].mid = replies[2].mid
  /\ "stats" \in DOMAIN replies[1].res
  /\ FindActive(sessions, replies[2].mid) # NoDoc

\* C9: a second accept of the same player on the same active session does not
\* error, replies with the same acceptedCount and the same per-player accepted
\* flags as the first, and leaves the session unchanged.
C9_DuplicateAcceptIdempotent ==
  AcceptedTwice =>
    /\ "stats" \in DOMAIN replies[2].res
    /\ replies[2].res.stats.acceptedCount = replies[1].res.stats.acceptedCount
    /\ replies[2].res.stats.players = replies[1].res.stats.players
    /\ ~replies[2].changed

\* a duplicate accept served after the clock moved on a session that the
\* first accept had changed
C9_Witness ==
  /\ AcceptedTwice
  /\ replies[1].changed
  /\ replies[2].res.stats.acceptedCount >= 1
  /\ replies[2].res.stats.secondsRemaining # replies[1].res.stats.secondsRemaining

\* C11: an accept served after the expiresAt of its session is rejected and
\* records no acceptance.
C11_LateAcceptRejected ==
  \A mid \in 1..Len(sessions) :
    \A i \in 1..Len(sessions[mid].players) :
      sessions[mid].players[i].accepted =>
        sessions[mid].players[i].acceptedAt <= sessions[mid].expiresAt

\* C12: an accept by a user that is not of the roster of the active session is
\* rejected as not a participant and an accept for a match id that has no
\* active session is rejected as not found; neither changes a session nor
\* creates a record.
C12_ForeignAcceptRejected ==
  \A k \in 1..Len(replies) :
    /\ (/\ replies[k].active
        /\ replies[k].userId \notin SeqToSet(UserIds(sessions[replies[k].mid].players)))
         => /\ replies[k].res = [error |-> "User not in session"]
            /\ ~replies[k].changed
            /\ ~replies[k].created
    /\ ~replies[k].active
         => /\ replies[k].res = [error |-> "Session not found or expired"]
            /\ ~replies[k].changed
            /\ ~replies[k].created

\* an outsider was turned away from a session that already holds an accept,
\* then an accept for a match id that was never issued was turned away
C12_Witness ==
  /\ Len(replies) = 2
  /\ replies[1].active
  /\ replies[1].res = [error |-> "User not in session"]
  /\ SomeAccepted(sessions[replies[1].mid])
  /\ replies[2].mid \notin 1..Len(sessions)
  /\ replies[2].res = [error |-> "Session not found or expired"]

\* the pool a queue request gets from getActiveQueue
ActivePool == LET g == getActiveQueue(queues) IN g.qs[g.id]

\* a join request of user u arrives in this step
JoinArrives(u) == joins'[u] # joins[u]

\* C13: in every queue the position of the entry at index i (from 0) is i + 1,
\* after any sequence of joins and leaves.
C13_PositionsSequential ==
  \A k \in 1..Len(queues) :
    \A i \in 1..Len(queues[k].players) : queues[k].players[i].position = i

\* a join that arrives for a pool at capacity is answered with an error and
\* changes no pool
C14_FullPoolStep ==
  \A u \in Users :
    (/\ JoinArrives(u)
     /\ canJoinQueue(u) = 0
     /\ ~InPool(ActivePool, u)
     /\ Len(ActivePool.players) >= ActivePool.requiredPlayers)
      => /\ qlog'.seq # qlog.seq
         /\ qlog'.code = 500
         /\ queues' = queues

C14_AtMostRequired ==
  \A k \in 1..Len(queues) : Len(queues[k].players) <= queues[k].requiredPlayers

\* C14: a queue never holds more than requiredPlayers entries, and a join on a
\* pool at capacity fails ('Queue is full') and leaves the entries unchanged.
C14_PoolWithinCapacity == []C14_AtMostRequired /\ [][C14_FullPoolStep]_vars

\* C15: however joins interleave, a pool is handed off once: one ready session
\* per pool, and its roster is exactly requiredPlayers distinct players.
C15_OneHandOffPerPool ==
  \A m1 \in 1..Len(sessions) :
    /\ Len(sessions[m1].players) = RequiredPlayers
    /\ Cardinality(SeqToSet(UserIds(sessions[m1].players))) = RequiredPlayers
    /\ \A m2 \in 1..Len(sessions) :
         sessions[m1].queueGroupId = sessions[m2].queueGroupId => m1 = m2

\* a join by a player that is already queued is answered 'Already in queue'
\* and changes no pool
C16_RejoinStep ==
  \A u \in Users :
    (JoinArrives(u) /\ (inQueue[u] \/ (ActiveIds(queues) # {} /\ InPool(ActivePool, u))))
      => /\ qlog'.seq # qlog.seq
         /\ qlog'.code = 400
         /\ qlog'.error = "Already in queue"
         /\ queues' = queues

C16_NoDuplicate ==
  \A k \in 1..Len(queues) :
    \A i, j \in 1..Len(queues[k].players) :
      queues[k].players[i].steamId = queues[k].players[j].steamId => i = j

\* C16: a join by a player that is already queued is rejected with 'Already in
\* queue' and leaves the queue unchanged; no steamId is twice in a queue.
C16_NoDoubleJoin == []C16_NoDuplicate /\ [][C16_RejoinStep]_vars

\* what a served leave request of user u does
C17_LeaveStep ==
  \A u \in Users :
    (qlog'.seq # qlog.seq /\ qlog'.op = "leave" /\ qlog'.userId = u) =>
      IF ActiveIds(queues) = {} \/ ~InPool(ActivePool, u)
      THEN /\ qlog'.code = 400
           /\ qlog'.error = "Not in queue"
           /\ inQueue' = inQueue
           /\ \A k \in 1..Len(queues) : queues'[k] = queues[k]
           /\ \A k \in (Len(queues) + 1)..Len(queues') : queues'[k].players = <<>>
      ELSE LET a == Min(ActiveIds(queues))
               NotU(id) == id # u
           IN /\ qlog'.code = 200
              /\ Len(queues') = Len(queues)
              /\ SteamIds(queues'[a].players) = SelectSeq(SteamIds(queues[a].players), NotU)
              /\ Len(queues'[a].players) = Len(queues[a].players) - 1
              /\ \A k \in 1..Len(queues) : k # a => queues'[k] = queues[k]
              /\ inQueue' = [inQueue EXCEPT ![u] = FALSE]

\* C17: a leave by a player that is not in the active queue is rejected with
\* 'Not in queue' and changes neither a queue nor an inQueue flag; a leave by
\* a queued player removes exactly that entry, keeps the order of the others
\* and sets the player's inQueue to false.
C17_LeaveRemovesExactlyOne == [][C17_LeaveStep]_vars

\* a player left from between two others, which stayed in order, and the
\* player's next leave was rejected
C17_Witness ==
  /\ qlog.op = "leave"
  /\ qlog.code = 400
  /\ qlog.userId = 2
  /\ ~inQueue[2]
  /\ SteamIds(queues[1].players) = <<1, 3>>

\* what the join that fills the pool does
C18_FillStep ==
  \A u \in Users :
    (/\ JoinArrives(u)
     /\ Len(ActivePool.players) = ActivePool.requiredPlayers - 1)
      => /\ Len(sessions') = Len(sessions) + 1
         /\ LET sess == sessions'[Len(sessions')]
            IN /\ UserIds(sess.players) = Append(SteamIds(ActivePool.players), u)
               /\ Len(sess.players) = RequiredPlayers
               /\ sess.status = "active"
               /\ sess.expiresAt = now + 20
         /\ qlog'.seq # qlog.seq
         /\ qlog'.op = "join"
         /\ qlog'.userId = u
         /\ qlog'.code = 200
         /\ qlog'.matchId = <<"PEND-", Len(sessions')>>
         /\ qlog'.queue = [players |-> <<>>, status |-> "completed"]

\* C18: the join that brings a pool to requiredPlayers creates a ready session
\* whose roster is exactly the pool's players, expiring 20 s later; its
\* response carries the provisional match id (PEND-...) and reports the pool
\* as completed with no players.
C18_FillStartsReadyPhase == [][C18_FillStep]_vars

\* a pool filled after the clock had moved
C18_Witness ==
  /\ "matchId" \in DOMAIN qlog
  /\ Len(sessions) = 1
  /\ sessions[1].expiresAt > 20
  /\ now = sessions[1].expiresAt - 20

\* how many times a player is listed on the two teams of a match
TimesOnTeams(m, steamId) ==
  Cardinality({i \in 1..Len(m.teams.alpha) : m.teams.alpha[i] = steamId})
  + Cardinality({i \in 1..Len(m.teams.beta) : m.teams.beta[i] = steamId})

\* C19: in a match of 10 players with the 2 captains on their sides, the draft
\* ends exactly with the 8th successful pickPlayer; at most one player is then
\* assigned automatically; the draft ends with 5 players on either team, every
\* player on exactly one team, nobody undrafted, and the phase veto; no player
\* is ever on two teams.
C19_DraftFillsBothTeams ==
  \A k \in 1..Len(matches) :
    LET m == matches[k]
        assigned == Len(m.teams.alpha) + Len(m.teams.beta) - 2 - Len(m.pickHistory)
    IN /\ m.phase \in {"draft", "veto"}
       /\ (m.phase = "veto") <=> (Len(m.pickHistory) = 8)
       /\ assigned \in {0, 1}
       /\ m.phase = "draft" => assigned = 0
       /\ \A i \in 1..Len(m.players) : TimesOnTeams(m, m.players[i].steamId) <= 1
       /\ TimesOnTeams(m, m.captains.alpha) = 1 /\ m.teams.alpha[1] = m.captains.alpha
       /\ TimesOnTeams(m, m.captains.beta) = 1 /\ m.teams.beta[1] = m.captains.beta
       /\ m.phase = "veto" =>
            /\ Len(m.teams.alpha) = 5
            /\ Len(m.teams.beta) = 5
            /\ \A i \in 1..Len(m.players) :
                 /\ TimesOnTeams(m, m.players[i].steamId) = 1
                 /\ m.players[i].team \in {"alpha", "beta"}
                 /\ \E j \in 1..5 : m.teams[m.players[i].team][j] = m.players[i].steamId

\* a draft that ended, under the second captain draw, with the last player of
\* the roster picked first
C19_Witness ==
  /\ Len(matches) = 1
  /\ matches[1].phase = "veto"
  /\ matches[1].captains.alpha = 2
  /\ matches[1].pickHistory[1].steamId = DraftPlayers
  /\ matches[1].pickHistory[8].steamId = 1

C21_RejectStep ==
  (mlog' # mlog) =>
    LET m == matches[mlog'.k]
        breaks ==
          IF mlog'.op = "pick"
          THEN \/ m.currentPicker # mlog'.captain
               \/ ~\E i \in 1..Len(m.players) :
                     m.players[i].steamId = mlog'.target /\ m.players[i].team = "undrafted"
          ELSE \/ m.currentVeto # mlog'.captain
               \/ ~\E i \in 1..Len(m.availableMaps) : m.availableMaps[i] = mlog'.target
    IN breaks => (mlog'.rejected /\ matches' = matches)

\* C21: a pickPlayer call by the side that is not currentPicker or for a
\* target that is not undrafted (a captain, a drafted player, a stranger), and
\* a banMap call by the side that is not currentVeto or for a map that is
\* banned or unknown, is rejected and changes nothing of the match.
C21_BadCallsRejected == [][C21_RejectStep]_vars

\* the side whose turn it is was refused a map it had banned before, in a
\* match whose draft saw its last pick
C21_Witness ==
  /\ mlog.op = "ban"
  /\ mlog.rejected
  /\ matches[1].phase = "veto"
  /\ matches[1].currentVeto = mlog.captain
  /\ \E i \in 1..Len(matches[1].bannedMaps) :
       /\ matches[1].bannedMaps[i].map = mlog.target
       /\ matches[1].bannedMaps[i].bannedBy = mlog.captain

\* C22: a veto over a pool of M maps takes exactly M - 1 successful bans, the
\* first by alpha and then strictly alternating; the moment one map is left
\* it is the selected map and the match is ready, and the selected map is the
\* one that was never banned.
C22_VetoAlternatesToOneMap ==
  \A k \in 1..Len(matches) :
    LET m == matches[k]
        banned == {m.bannedMaps[i].map : i \in 1..Len(m.bannedMaps)}
    IN /\ Len(m.bannedMaps) + Len(m.availableMaps) = MapPool
       /\ Cardinality(banned) = Len(m.bannedMaps)
       /\ \A i \in 1..Len(m.bannedMaps) :
            m.bannedMaps[i].bannedBy = IF i % 2 = 1 THEN "alpha" ELSE "beta"
       /\ (Len(m.availableMaps) = 1) <=> (m.phase = "ready")
       /\ m.phase = "ready" =>
            /\ Len(m.bannedMaps) = MapPool - 1
            /\ m.selectedMap = m.availableMaps[1]
            /\ m.selectedMap \notin banned
            /\ m.selectedMap \in SeqToSet(SubSeq(AvailableMaps, 1, MapPool))
       /\ m.phase # "ready" => m.selectedMap = NoMap

\* a veto that ended: the pool is down to the selected map
C22_Witness ==
  /\ matches[1].phase = "ready"
  /\ Len(matches[1].bannedMaps) = MapPool - 1
  /\ matches[1].bannedMaps[1].bannedBy = "alpha"
  /\ matches[1].selectedMap \in SeqToSet(matches[1].availableMaps)

\* C23: every match that enters ready reaches live whether provisioning succeeds
\* or fails, after a veto ended by the ban route and after one ended by the
\* automatic ban; stated on finite runs: no match is left in ready once the
\* provisioning started for it has settled, a match that went live on a
\* failure has no serverInfo and one that went live on a success has it.
C23_ReadyReachesLive ==
  \A k \in 1..Len(matches) :
    /\ matches[k].phase = "ready" => prov[k].state = "pending"
    /\ matches[k].phase = "live" => prov[k].state = "done"

PhaseRank(ph) ==
  CASE ph = "accept" -> 1 [] ph = "draft" -> 2 [] ph = "veto" -> 3 [] ph = "ready" -> 4
    [] ph = "live" -> 5 [] ph = "complete" -> 6 [] OTHER -> 7

C24_PhaseStep ==
  \A k \in 1..Len(matches) :
    matches'[k].phase # matches[k].phase =>
      /\ matches[k].phase \notin {"complete", "cancelled"}
      /\ \/ matches'[k].phase = "cancelled"
         \/ PhaseRank(matches'[k].phase) > PhaseRank(matches[k].phase)

\* C24: the phase of a match only moves forward along accept, draft, veto,
\* ready, live, complete, or to cancelled from a phase that is not terminal;
\* once complete or cancelled it never changes, also when a provisioning
\* callback started earlier finishes later.
C24_PhaseForwardOnly == [][C24_PhaseStep]_vars

Side(m, team) == SeqToSet(m.teams[team])

C28_CompleteStep ==
  \A k \in 1..Len(matches) :
    (/\ matches[k].phase = "live"
     /\ matches'[k].phase = "complete"
     /\ matches'[k].result.winner = "alpha") =>
      \A u \in DOMAIN stats :
        /\ stats'[u].wins = stats[u].wins + (IF u \in Side(matches[k], "alpha") THEN 1 ELSE 0)
        /\ stats'[u].losses = stats[u].losses + (IF u \in Side(matches[k], "beta") THEN 1 ELSE 0)
        /\ u \in Side(matches[k], "alpha") \cup Side(matches[k], "beta") => currentMatch'[u] = 0

\* C28: when a live match is completed with winner alpha, exactly the players
\* of alpha gain one win and exactly the players of beta gain one loss, no
\* other wins or losses change, and currentMatch is null for all ten
\* participants afterwards.
C28_WinnerAlphaStats == [][C28_CompleteStep]_vars

C30_GamesPlayedStep ==
  (mlog' # mlog /\ mlog'.op = "complete" /\ mlog'.target \in {"alpha", "beta", "tie"}) =>
    LET k == mlog'.k
        m == matches[k]
    IN /\ matches'[k].phase = "complete"
       /\ \A u \in Side(m, "alpha") \cup Side(m, "beta") :
            /\ stats'[u].matchesPlayed = stats[u].matchesPlayed + 1
            /\ mlog'.target = "tie" =>
                 /\ stats'[u].rating = stats[u].rating
                 /\ stats'[u].wins = stats[u].wins
                 /\ stats'[u].losses = stats[u].losses

\* C30: completing a live match counts exactly one game played for each of
\* its ten participants whatever the result, and a tie (winner 'tie' on the
\* complete endpoint) completes the match and changes no participant's
\* rating, wins or losses.
C30_OneGamePlayedEach == [][C30_GamesPlayedStep]_vars

C29_RatingStep ==
  \A u \in DOMAIN stats :
    stats'[u] # stats[u] =>
      /\ mlog'.won => stats'[u].rating = stats[u].rating + 25
      /\ ~mlog'.won => stats'[u].rating = IF stats[u].rating >= 25 THEN stats[u].rating - 25
                                          ELSE 0

C29_RatingNonNegative == \A u \in DOMAIN stats : stats[u].rating >= 0

\* C29: a win adds exactly 25 to the rating, a loss subtracts 25 floored at 0,
\* and the rating is never negative.
C29_RatingArithmetic == []C29_RatingNonNegative /\ [][C29_RatingStep]_vars

\* a loss at a rating between 1 and 24 left the rating at 0
C29_Witness ==
  /\ mlog.op = "updateStats"
  /\ ~mlog.won
  /\ mlog.before \in 1..24
  /\ stats[mlog.user].rating = 0
  /\ stats[mlog.user].wins >= 1

AcceptedSet(m) == SeqToSet(m.acceptPhase.acceptedPlayers)
RequiredSet(m) == SeqToSet(m.acceptPhase.requiredPlayers)

C25_DraftOnlyWhenAllAccepted ==
  \A k \in 1..Len(matches) :
    matches[k].phase = "draft" => RequiredSet(matches[k]) \subseteq AcceptedSet(matches[k])

C25_TimeoutStep ==
  \A k \in 1..Len(matches) :
    (/\ timers[k].state = "armed"
     /\ timers'[k].state = "done"
     /\ matches[k].acceptPhase.active
     /\ ~(RequiredSet(matches[k]) \subseteq AcceptedSet(matches[k]))) =>
      matches'[k].phase = "cancelled"

\* C25: a match leaves accept for draft only when every required player has
\* accepted, and when the accept deadline is processed with an incomplete set
\* of accepts the match becomes cancelled, never draft.
C25_AcceptGate == []C25_DraftOnlyWhenAllAccepted /\ [][C25_TimeoutStep]_vars

C26_RequeueStep ==
  \A k \in 1..Len(matches) :
    (/\ timers[k].state = "armed"
     /\ timers'[k].state = "done"
     /\ matches[k].acceptPhase.active
     /\ ~(RequiredSet(matches[k]) \subseteq AcceptedSet(matches[k]))) =>
      LET g == getActiveQueue(queues')
          ps == g.qs[g.id].players
      IN /\ \A u \in RequiredSet(matches[k]) \cap AcceptedSet(matches[k]) :
              /\ inQueue'[u]
              /\ \E i \in 1..Len(ps) :
                   /\ ps[i].steamId = u
                   /\ ps[i].hasPriority
                   /\ \A j \in 1..Len(ps) : ~ps[j].hasPriority => i < j
         /\ \A u \in RequiredSet(matches[k]) \ AcceptedSet(matches[k]) :
              \A i \in 1..Len(ps) : ps[i].steamId # u
         /\ \A u \in RequiredSet(matches[k]) : currentMatch'[u] = 0

\* C26: when the accept phase of a match times out with an incomplete set,
\* every acceptor is back in the active queue with hasPriority true, ahead of
\* the entries without priority, and has inQueue true; every non-acceptor is
\* absent from the queue; currentMatch is cleared for all participants.
C26_AcceptorsRequeuedWithPriority == [][C26_RequeueStep]_vars

C27_DuplicateStep ==
  (/\ mlog' # mlog
   /\ mlog'.op = "accept"
   /\ mlog'.k \in 1..Len(matches)) =>
    LET m == matches[mlog'.k]
    IN (/\ m.phase = "accept"
        /\ m.acceptPhase.active
        /\ now <= m.acceptPhase.expiresAt
        /\ mlog'.user \in AcceptedSet(m)) =>
         (~mlog'.rejected /\
          Len(matches'[mlog'.k].acceptPhase.acceptedPlayers) <=
            Len(m.acceptPhase.acceptedPlayers) + 1)

\* C27: a duplicate accept by a player who has already accepted is answered as
\* a success with the counts unchanged, not as an error, on the accept path of
\* the match (and on those of the ready session and of the pool).
C27_DuplicateAcceptIsSuccess == [][C27_DuplicateStep]_vars

C31_SecondCompleteStep ==
  (\E k \in 1..Len(matches) : matches[k].phase = "complete") => stats' = stats

StaleReference(u) ==
  /\ currentMatch[u] # 0
  /\ \/ currentMatch[u] \notin 1..Len(matches)
     \/ matches[currentMatch[u]].phase \in {"complete", "cancelled"}

C36_StaleJoinStep ==
  \A u \in Users :
    (joins'[u] # joins[u] /\ ~inQueue[u] /\ StaleReference(u)) =>
      /\ currentMatch'[u] = 0
      /\ ~(/\ qlog' # qlog
           /\ "error" \in DOMAIN qlog'
           /\ qlog'.error = "Already in an active match")

\* C36: a stale match reference never blocks queue entry: when a player's
\* currentMatch points to a match that no longer exists or that is complete
\* or cancelled, canJoinQueue clears the reference and the join goes on
\* instead of being answered 'Already in an active match'.
C36_StaleReferenceCleared == [][C36_StaleJoinStep]_vars

InLiveMatch(u) ==
  \E k \in 1..Len(matches) :
    /\ matches[k].phase \notin {"complete", "cancelled"}
    /\ \E i \in 1..Len(matches[k].players) : matches[k].players[i].steamId = u

InLiveQueue(u) ==
  \/ \E q \in 1..Len(queues) : queues[q].status # "completed" /\ InPool(queues[q], u)
  \/ \E s \in 1..Len(sessions) :
       /\ sessions[s].status = "active"
       /\ ~sessions[s].ttlDeleted
       /\ \E i \in 1..Len(sessions[s].players) : sessions[s].players[i].userId = u

\* C32: between operations, a player's currentMatch is set if and only if the
\* player takes part in a match that is not complete or cancelled, and inQueue
\* is true if and only if the player is in a pool that is not completed or in
\* an active ready session; completion, cancellation and timeout clear the flags.
C32_FlagsFollowMembership ==
  /\ \A u \in DOMAIN currentMatch : (currentMatch[u] # 0) <=> InLiveMatch(u)
  /\ \A u \in DOMAIN inQueue : inQueue[u] <=> InLiveQueue(u)

C33_TurnStep ==
  \A r \in 1..MaxJoinsInFlight :
    (jq[r].pc \in {"picking", "banning"} /\ jq'[r].pc = "idle" /\ ~mlog'.rejected) =>
      LET stored == matches[jq[r].qid]
          base == jq[r].mem.base
      IN /\ stored.pickIndex = base.pickIndex
         /\ stored.vetoIndex = base.vetoIndex
         /\ Len(stored.pickHistory) = Len(base.pickHistory)
         /\ Len(stored.bannedMaps) = Len(base.bannedMaps)

\* C33: two concurrent pickPlayer requests, or two concurrent banMap requests,
\* on the same match that saw the same currentPicker and pickIndex (currentVeto
\* and vetoIndex) do not both succeed: a request succeeds only on the turn it
\* saw, so at most one pick is applied per pickIndex and one ban per vetoIndex.
C33_OneSuccessPerTurn == [][C33_TurnStep]_vars

C34_RaceStep ==
  \A k \in 1..Len(matches) :
    /\ allPlayersAccepted(matches'[k]) => matches'[k].phase # "cancelled"
    /\ matches[k].phase = "draft" =>
         /\ matches'[k].phase = "draft"
         /\ queues' = queues
         /\ inQueue' = inQueue

\* C34: the last player's accept and the run of the deadline timer, in either
\* order, give one outcome: a match whose required players all accepted is
\* never cancelled, a match that moved to draft keeps that phase, and no
\* acceptor is put back in the pool for a match that went to draft.
C34_AcceptTimerOneOutcome == [][C34_RaceStep]_vars

\* the statuses a pool in status st may take next along the transitions
\* waiting -> full -> processing -> completed and
\* waiting -> accept_phase -> waiting / processing, taken any number of times
StatusAfter(st) ==
  CASE st \in {"waiting", "accept_phase"} ->
         {"waiting", "accept_phase", "full", "processing", "completed"}
    [] st = "full" -> {"full", "processing", "completed"}
    [] st = "processing" -> {"processing", "completed"}
    [] OTHER -> {"completed"}

C35_StatusStep ==
  \A q \in 1..Len(queues) : queues'[q].status \in StatusAfter(queues[q].status)

\* C35: the status of a pool only moves along waiting -> full -> processing ->
\* completed or waiting -> accept_phase -> waiting / processing; a pool that
\* reached completed never returns to waiting or full, whatever joins and
\* ready-check timeouts happen.
C35_StatusTransitions == [][C35_StatusStep]_vars

C37_SkipStep ==
  (mlog'.op = "createMatchFromQueue" /\ mlog' # mlog /\ mlog'.skip) =>
    /\ matches'[mlog'.k].phase = "draft"
    /\ timers'[mlog'.k].state = "none"

\* C37: with the skipAcceptPhase flag on, a match created by
\* createMatchFromQueue skips the accept phase: with nobody accepting it
\* leaves accept for draft, not cancelled, and no accept timer is set for it.
C37_SkipAcceptGoesToDraft == [][C37_SkipStep]_vars

\* C38: pickIndex never exceeds pickOrder.length and pickHistory never holds
\* more entries than pickOrder has picks: a pickPlayer call after the last pick
\* of the draft is rejected and changes nothing.
C38_PicksBounded ==
  \A k \in 1..Len(matches) :
    /\ matches[k].pickIndex <= Len(matches[k].pickOrder)
    /\ Len(matches[k].pickHistory) <= Len(matches[k].pickOrder)

C40_AcceptedDeclinedDisjoint ==
  \A q \in 1..Len(queues) :
    LET accepted == queues[q].acceptPhase.acceptedPlayers
        declined == queues[q].acceptPhase.declinedPlayers
    IN /\ SeqToSet(accepted) \cap SeqToSet(declined) = {}
       /\ SeqToSet(accepted) \cup SeqToSet(declined) \subseteq SeqToSet(SteamIds(queues[q].players))
       /\ Cardinality(SeqToSet(accepted)) = Len(accepted)
       /\ Cardinality(SeqToSet(declined)) = Len(declined)

====
